---- MODULE Spec2Model ----
(***************************************************************************)
(* Traffic-light controller (Semaphore_RTOS): hardware abstraction layer,  *)
(* state table, state machine, shared context with its mutex, the control  *)
(* and monitor tasks, the task manager and the startup sequence.           *)
(*                                                                         *)
(* Time is counted in clock units of MsPerUnit = 8 ms: every duration and  *)
(* period of Config.h is a multiple of 8 ms, and the 32-bit millisecond    *)
(* counter wraps at 2^32 ms = 2^29 units.                                  *)
(***************************************************************************)
EXTENDS Integers, Sequences, FiniteSets, TLC

----------------------------------------------------------------------------
(* Types.h: SemaphoreState *)

GREEN_CAR == 0
YELLOW_CAR == 1
SAFETY_GAP_BEFORE == 2
GREEN_PEDESTRIAN == 3
SAFETY_GAP_AFTER == 4
FIRST_STATE == GREEN_CAR
LAST_STATE == SAFETY_GAP_AFTER
TOTAL_STATES == 5

SemaphoreState == {GREEN_CAR, YELLOW_CAR, SAFETY_GAP_BEFORE,
                   GREEN_PEDESTRIAN, SAFETY_GAP_AFTER}

(* Types.h: LedStatus *)
OFF == FALSE
ON == TRUE

(* Types.h: LedConfiguration, parameterized constructor *)
LedConfiguration(rc, yc, gc, rp, gp) ==
    [redCar |-> rc, yellowCar |-> yc, greenCar |-> gc,
     redPedestrian |-> rp, greenPedestrian |-> gp]

(* Types.h: LedConfiguration, default constructor: all LEDs OFF *)
LedConfigurationDefault == LedConfiguration(OFF, OFF, OFF, OFF, OFF)

(* Mutant of operator++ : the wrap test compares with the wrong state, so *)
(* the cycle wraps one state early and SAFETY_GAP_AFTER is skipped.        *)
NextStateEarlyWrap(state) ==
    IF state = GREEN_PEDESTRIAN \/ state = LAST_STATE
    THEN FIRST_STATE ELSE (state + 1) % 256

(* Types.h: operator++(SemaphoreState&) *)
NextState(state) ==
    IF state = LAST_STATE THEN FIRST_STATE ELSE (state + 1) % 256

(* Types.h: toIndex *)
toIndex(state) == state

----------------------------------------------------------------------------
(* Config.h *)

LED_RED_CAR == 13
LED_YELLOW_CAR == 12
LED_GREEN_CAR == 11
LED_GREEN_PEDESTRIAN == 10
LED_RED_PEDESTRIAN == 9

Pins == {LED_RED_CAR, LED_YELLOW_CAR, LED_GREEN_CAR,
         LED_RED_PEDESTRIAN, LED_GREEN_PEDESTRIAN}

MsPerUnit == 2 ^ 3
Ms(t) == t \div MsPerUnit

GREEN_CAR_DURATION == Ms(20000)
YELLOW_CAR_DURATION == Ms(3000)
SAFETY_GAP_DURATION == Ms(5000)
GREEN_PEDESTRIAN_DURATION == Ms(20000)
TOTAL_CYCLE_DURATION ==
    GREEN_CAR_DURATION + YELLOW_CAR_DURATION + SAFETY_GAP_DURATION
    + GREEN_PEDESTRIAN_DURATION + SAFETY_GAP_DURATION
MONITOR_PERIOD_MS == Ms(1000)

(* uint32_t millisecond counter: 2^32 ms *)
MillisModulus == 2 ^ 29

----------------------------------------------------------------------------
(* Semaphore_State_Machine.h: StateTable *)

StateInfo(s, d, lc) == [state |-> s, duration |-> d, ledConfig |-> lc]

(* Mutant of the state table: the GREEN_PEDESTRIAN entry leaves the vehicle *)
(* green lit.                                                               *)
stateTableConflict ==
    <<StateInfo(GREEN_CAR, GREEN_CAR_DURATION,
                LedConfiguration(OFF, OFF, ON, ON, OFF)),
      StateInfo(YELLOW_CAR, YELLOW_CAR_DURATION,
                LedConfiguration(OFF, ON, OFF, ON, OFF)),
      StateInfo(SAFETY_GAP_BEFORE, SAFETY_GAP_DURATION,
                LedConfiguration(ON, OFF, OFF, ON, OFF)),
      StateInfo(GREEN_PEDESTRIAN, GREEN_PEDESTRIAN_DURATION,
                LedConfiguration(OFF, OFF, ON, OFF, ON)),
      StateInfo(SAFETY_GAP_AFTER, SAFETY_GAP_DURATION,
                LedConfiguration(ON, OFF, OFF, ON, OFF))>>

(* Mutant of the state table: the GREEN_PEDESTRIAN entry leaves the vehicle *)
(* yellow lit.                                                              *)
stateTableYellow ==
    <<StateInfo(GREEN_CAR, GREEN_CAR_DURATION,
                LedConfiguration(OFF, OFF, ON, ON, OFF)),
      StateInfo(YELLOW_CAR, YELLOW_CAR_DURATION,
                LedConfiguration(OFF, ON, OFF, ON, OFF)),
      StateInfo(SAFETY_GAP_BEFORE, SAFETY_GAP_DURATION,
                LedConfiguration(ON, OFF, OFF, ON, OFF)),
      StateInfo(GREEN_PEDESTRIAN, GREEN_PEDESTRIAN_DURATION,
                LedConfiguration(ON, ON, OFF, OFF, ON)),
      StateInfo(SAFETY_GAP_AFTER, SAFETY_GAP_DURATION,
                LedConfiguration(ON, OFF, OFF, ON, OFF))>>

(* Mutant of the state table: the second safety gap lasts as long as the *)
(* vehicle yellow.                                                       *)
stateTableShortGap ==
    <<StateInfo(GREEN_CAR, GREEN_CAR_DURATION,
                LedConfiguration(OFF, OFF, ON, ON, OFF)),
      StateInfo(YELLOW_CAR, YELLOW_CAR_DURATION,
                LedConfiguration(OFF, ON, OFF, ON, OFF)),
      StateInfo(SAFETY_GAP_BEFORE, SAFETY_GAP_DURATION,
                LedConfiguration(ON, OFF, OFF, ON, OFF)),
      StateInfo(GREEN_PEDESTRIAN, GREEN_PEDESTRIAN_DURATION,
                LedConfiguration(ON, OFF, OFF, OFF, ON)),
      StateInfo(SAFETY_GAP_AFTER, YELLOW_CAR_DURATION,
                LedConfiguration(ON, OFF, OFF, ON, OFF))>>

stateTable_ ==
    <<StateInfo(GREEN_CAR, GREEN_CAR_DURATION,
                LedConfiguration(OFF, OFF, ON, ON, OFF)),
      StateInfo(YELLOW_CAR, YELLOW_CAR_DURATION,
                LedConfiguration(OFF, ON, OFF, ON, OFF)),
      StateInfo(SAFETY_GAP_BEFORE, SAFETY_GAP_DURATION,
                LedConfiguration(ON, OFF, OFF, ON, OFF)),
      StateInfo(GREEN_PEDESTRIAN, GREEN_PEDESTRIAN_DURATION,
                LedConfiguration(ON, OFF, OFF, OFF, ON)),
      StateInfo(SAFETY_GAP_AFTER, SAFETY_GAP_DURATION,
                LedConfiguration(ON, OFF, OFF, ON, OFF))>>

(* The table is a C array indexed from 0. *)
getStateInfo(state) == stateTable_[toIndex(state) + 1]
getStateDuration(state) == stateTable_[toIndex(state) + 1].duration
getLedConfiguration(state) == stateTable_[toIndex(state) + 1].ledConfig

----------------------------------------------------------------------------
(* Bounds of the model *)

\* The clock advances in steps of 5 s or 20 s; it stops advancing after
\* MaxClockSteps steps of 5 s (program alone).
MaxClockSteps == 11
\* The clock bound when an external caller suspends and resumes the tasks.
MaxClockStepsEnv == 4
\* Number of suspendAllTasks / resumeAllTasks calls of the external caller.
MaxEnvCalls == 2
\* The clock bound when an external caller uses emergencyStop.
MaxClockStepsStop == 6
\* Number of emergencyStop calls of the external caller.
MaxStops == 1

\* The clock bound when a client drives the state machine object directly.
MaxClockStepsApi == 12

\* The clock bound when the stack-overflow hook may fire.
MaxClockStepsHook == 4
\* The clock bound of the fair behaviours of the program.
MaxClockStepsLive == 8

\* The clock bound for the task functions started with any argument.
MaxClockStepsTask == 5

\* The clock bound, past the wrap of the millisecond counter, of the state
\* machine driven across the wrap.
MaxClockStepsWrap == 7

MaxTime == Ms(MaxClockSteps * 5000)
MaxTimeWrap == Ms(MaxClockStepsWrap * 5000)
MaxTimeTask == Ms(MaxClockStepsTask * 5000)
MaxTimeHook == Ms(MaxClockStepsHook * 5000)
MaxTimeLive == Ms(MaxClockStepsLive * 5000)
MaxTimeApi == Ms(MaxClockStepsApi * 5000)
MaxTimeEnv == Ms(MaxClockStepsEnv * 5000)
MaxTimeStop == Ms(MaxClockStepsStop * 5000)

\* Amounts by which the clock advances between two steps of the program.
TickDeltas == {Ms(5000), Ms(20000)}

----------------------------------------------------------------------------
VARIABLES
    now,                  \* millis() / tick count
    pins,                 \* level of each output pin (digitalWrite)
    pinModes,             \* pinMode of each pin
    hwQueue,              \* pin operations still to be executed by the HAL call
                          \* in progress in the thread that owns the machine
    envQueue,             \* the same for the external caller's HAL call
    currentState_, stateStartTime_, cycleCount_, isInitialized_,
    mutex_,               \* SharedContext::mutex_ : "NULL" or "MUTEX"
    mutexHolder,          \* who holds the FreeRTOS mutex
    systemActive_, totalTransitions_,
    locked_,              \* ScopedLock::locked_ of each task's guard
    pvParameters,         \* the argument each task function is started with
    pc,                   \* position of each task
    suspended,            \* vTaskSuspend / vTaskResume
    stateChanged,         \* local of semaphoreControlTask
    lastWakeTime,         \* local of monitorTask
    report,               \* what monitorTask last printed
    semaphoreTaskHandle_, monitorTaskHandle_, tasksCreated_,
    pcMain,               \* position of setup()
    pcEnv,                \* position of the external caller
    envCalls,             \* public operations invoked so far
    trueUpdates,          \* history: update() calls that returned true
    upd,                  \* history: the update() call of this iteration
    lastAccess,           \* history: last access to the shared counters
    lastCall              \* history: last public operation called by setup()
                          \* or by a caller outside the tasks, its result, and
                          \* whether emergencyStop() was called since the last
                          \* begin() or transition

hwVars == <<pins, pinModes, hwQueue, envQueue>>
smVars == <<currentState_, stateStartTime_, cycleCount_, isInitialized_>>
ctxVars == <<mutex_, mutexHolder, systemActive_, totalTransitions_, locked_>>
taskVars == <<pc, suspended, stateChanged, lastWakeTime, report>>
mgrVars == <<semaphoreTaskHandle_, monitorTaskHandle_, tasksCreated_>>
envVars == <<pcEnv, envCalls>>
histVars == <<trueUpdates, upd, lastAccess, lastCall>>
vars == <<now, pvParameters, hwVars, smVars, ctxVars, taskVars, mgrVars,
          pcMain, envVars, histVars>>

Tasks == {"ctrl", "mon"}
NoUpdate == [called |-> FALSE, from |-> GREEN_CAR, elapsed |-> 0,
             result |-> FALSE, behind |-> FALSE]
NoAccess == [by |-> "none", field |-> "none", holder |-> "none"]
NoCall == [op |-> "none", ret |-> FALSE, from |-> GREEN_CAR,
           stopped |-> FALSE]
NoReport == [printed |-> FALSE, state |-> 0, timeRemaining |-> 0,
             cycleCount |-> 0, totalTransitions |-> 0, previous |-> 0]

----------------------------------------------------------------------------
(* Hardware_Abstraction_Layer.h: the pin operations each call performs, in *)
(* program order.  An operation is <<kind, pin, level, call, config>>.     *)

PinOp(kind, pin, level, call, config) ==
    [kind |-> kind, pin |-> pin, level |-> level, call |-> call,
     config |-> config]

(* toDigitalValue + digitalWrite *)
setLedState(pin, status, call, config) ==
    <<PinOp("digitalWrite", pin, status, call, config)>>

configurePinAsOutput(pin) ==
    <<PinOp("pinMode", pin, OFF, "initialize", LedConfigurationDefault),
      PinOp("digitalWrite", pin, OFF, "initialize", LedConfigurationDefault)>>

turnAllLedsOff(call, config) ==
    <<PinOp("digitalWrite", LED_RED_CAR, OFF, call, config),
      PinOp("digitalWrite", LED_YELLOW_CAR, OFF, call, config),
      PinOp("digitalWrite", LED_GREEN_CAR, OFF, call, config),
      PinOp("digitalWrite", LED_RED_PEDESTRIAN, OFF, call, config),
      PinOp("digitalWrite", LED_GREEN_PEDESTRIAN, OFF, call, config)>>

(* Mutant of initialize(): the pedestrian channels are not configured. *)
hwInitializeCarOnly ==
    configurePinAsOutput(LED_RED_CAR) \o configurePinAsOutput(LED_YELLOW_CAR)
    \o configurePinAsOutput(LED_GREEN_CAR)
    \o turnAllLedsOff("initialize", LedConfigurationDefault)

hwInitialize ==
    configurePinAsOutput(LED_RED_CAR) \o configurePinAsOutput(LED_YELLOW_CAR)
    \o configurePinAsOutput(LED_GREEN_CAR)
    \o configurePinAsOutput(LED_RED_PEDESTRIAN)
    \o configurePinAsOutput(LED_GREEN_PEDESTRIAN)
    \o turnAllLedsOff("initialize", LedConfigurationDefault)

(* Mutant of applyConfiguration: the LEDs are not turned off first. *)
applyConfigurationNoAllOff(config) ==
    setLedState(LED_RED_CAR, config.redCar, "applyConfiguration", config)
    \o setLedState(LED_YELLOW_CAR, config.yellowCar, "applyConfiguration", config)
    \o setLedState(LED_GREEN_CAR, config.greenCar, "applyConfiguration", config)
    \o setLedState(LED_RED_PEDESTRIAN, config.redPedestrian,
                   "applyConfiguration", config)
    \o setLedState(LED_GREEN_PEDESTRIAN, config.greenPedestrian,
                   "applyConfiguration", config)

applyConfiguration(config) ==
    turnAllLedsOff("applyConfiguration", config)
    \o setLedState(LED_RED_CAR, config.redCar, "applyConfiguration", config)
    \o setLedState(LED_YELLOW_CAR, config.yellowCar, "applyConfiguration", config)
    \o setLedState(LED_GREEN_CAR, config.greenCar, "applyConfiguration", config)
    \o setLedState(LED_RED_PEDESTRIAN, config.redPedestrian,
                   "applyConfiguration", config)
    \o setLedState(LED_GREEN_PEDESTRIAN, config.greenPedestrian,
                   "applyConfiguration", config)

(* One pin operation reaches the port. *)
ExecPinOp(op, p, m) ==
    IF op.kind = "pinMode"
    THEN <<p, [m EXCEPT ![op.pin] = "OUTPUT"]>>
    ELSE <<[p EXCEPT ![op.pin] = op.level], m>>

(* Mutant of updateHardware(): the port is left as it is. *)
updateHardwareSkipped(state) == <<>>

(* Semaphore_State_Machine.h: updateHardware *)
updateHardware(state) == applyConfiguration(getLedConfiguration(state))

(* Mutant of the elapsed-time computation: a difference that would be *)
(* negative counts as no time elapsed.                                 *)
ElapsedTimeClamped(currentTime, startTime) ==
    IF currentTime >= startTime THEN currentTime - startTime ELSE 0

(* uint32_t subtraction currentTime - stateStartTime_ *)
ElapsedTime(currentTime, startTime) ==
    (currentTime - startTime + MillisModulus) % MillisModulus

----------------------------------------------------------------------------
Init ==
    /\ now = 0
    /\ pins = [p \in Pins |-> OFF]
    /\ pinModes = [p \in Pins |-> "INPUT"]
    /\ hwQueue = <<>>
    /\ envQueue = <<>>
    /\ currentState_ = GREEN_CAR
    /\ stateStartTime_ = 0
    /\ cycleCount_ = 0
    /\ isInitialized_ = FALSE
    /\ mutex_ = "NULL"
    /\ mutexHolder = "none"
    /\ systemActive_ = TRUE
    /\ totalTransitions_ = 0
    /\ locked_ = [t \in Tasks |-> FALSE]
    /\ pvParameters = [t \in Tasks |-> "context"]
    /\ pc = [t \in Tasks |-> "none"]
    /\ suspended = [t \in Tasks |-> FALSE]
    /\ stateChanged = FALSE
    /\ lastWakeTime = 0
    /\ report = NoReport
    /\ semaphoreTaskHandle_ = "NULL"
    /\ monitorTaskHandle_ = "NULL"
    /\ tasksCreated_ = FALSE
    /\ pcMain = "initializeHardware"
    /\ pcEnv = "idle"
    /\ envCalls = 0
    /\ trueUpdates = 0
    /\ upd = NoUpdate
    /\ lastAccess = NoAccess
    /\ lastCall = NoCall

----------------------------------------------------------------------------
(* The clock advances. *)
Tick(maxTime) ==
    /\ \E d \in TickDeltas :
          /\ now + d <= maxTime
          /\ now' = (now + d) % MillisModulus
    /\ UNCHANGED <<pvParameters, hwVars, smVars, ctxVars, taskVars, mgrVars,
                   pcMain, envVars, histVars>>

(* The thread that owns the state machine is setup() until the scheduler *)
(* starts and semaphoreControlTask afterwards.                           *)
OwnerRuns == pcMain # "scheduler" \/ ~suspended["ctrl"]

(* One digitalWrite / pinMode of the HAL call in progress. *)
HwStep ==
    /\ hwQueue # <<>>
    /\ OwnerRuns
    /\ pins' = ExecPinOp(Head(hwQueue), pins, pinModes)[1]
    /\ pinModes' = ExecPinOp(Head(hwQueue), pins, pinModes)[2]
    /\ hwQueue' = Tail(hwQueue)
    /\ UNCHANGED <<now, pvParameters, envQueue, smVars, ctxVars, taskVars, mgrVars, pcMain,
                   envVars, histVars>>

----------------------------------------------------------------------------
(* Semaphore_State_Machine.h: SemaphoreStateMachine *)

(* Mutant of initialize(): the port is initialized on every call. *)
smInitializeAlways(initialized) == hwInitialize

(* initialize(): the pin operations it causes, given the initialized flag *)
smInitialize(initialized) == IF ~initialized THEN hwInitialize ELSE <<>>

(* Mutant of begin(): the start timestamp is not taken. *)
beginKeepsTimestamp(initialized, t) ==
    [state |-> GREEN_CAR, start |-> stateStartTime_, cycles |-> 1,
     ops |-> smInitialize(initialized) \o updateHardware(GREEN_CAR)]

(* begin(), called at time t: <<state, start time, cycle count, pin ops>> *)
begin(initialized, t) ==
    [state |-> GREEN_CAR, start |-> t, cycles |-> 1,
     ops |-> smInitialize(initialized) \o updateHardware(GREEN_CAR)]

(* Mutant of the expiry test of update(): a state is left one poll early. *)
IsExpiredAlways(elapsedTime, stateDuration) == elapsedTime >= 0

(* update(): if (elapsedTime >= stateDuration) *)
IsExpired(elapsedTime, stateDuration) == elapsedTime >= stateDuration

(* Mutant of the cycle count: every transition counts as a cycle. *)
cycleCountAfterEvery(previousState, newState, cycles) == cycles + 1

(* transitionToNextState(): the cycle count after the transition *)
cycleCountAfter(previousState, newState, cycles) ==
    IF newState = GREEN_CAR /\ previousState = SAFETY_GAP_AFTER
    THEN cycles + 1 ELSE cycles

(* Mutant of transitionToNextState(): all elapsed states are skipped at once. *)
RECURSIVE StateAfter(_, _)
StateAfter(state, elapsedTime) ==
    IF elapsedTime >= getStateDuration(state) + getStateDuration(NextState(state))
    THEN StateAfter(NextState(state), elapsedTime - getStateDuration(state))
    ELSE NextState(state)

transitionTargetFastForward(state, elapsedTime) == StateAfter(state, elapsedTime)

(* transitionToNextState(): ++currentState_ *)
transitionTarget(state, elapsedTime) == NextState(state)

(* Mutant of update(): the initialized flag is not tested. *)
updateUnguarded(t) ==
    LET elapsedTime == ElapsedTime(t, stateStartTime_)
        stateDuration == getStateDuration(currentState_)
        newState == transitionTarget(currentState_, elapsedTime)
    IN  IF IsExpired(elapsedTime, stateDuration)
        THEN [result |-> TRUE, state |-> newState, start |-> t,
              cycles |-> cycleCountAfter(currentState_, newState, cycleCount_),
              ops |-> updateHardware(newState), elapsed |-> elapsedTime]
        ELSE [result |-> FALSE, state |-> currentState_,
              start |-> stateStartTime_, cycles |-> cycleCount_, ops |-> <<>>,
              elapsed |-> elapsedTime]

(* Mutant of transitionToNextState(): the new state starts where the old *)
(* one was due to end, not at the time of the call.                      *)
updateCatchingUp(t) ==
    LET elapsedTime == ElapsedTime(t, stateStartTime_)
        stateDuration == getStateDuration(currentState_)
        newState == transitionTarget(currentState_, elapsedTime)
    IN  IF ~isInitialized_
        THEN [result |-> FALSE, state |-> currentState_,
              start |-> stateStartTime_, cycles |-> cycleCount_, ops |-> <<>>,
              elapsed |-> 0]
        ELSE IF IsExpired(elapsedTime, stateDuration)
        THEN [result |-> TRUE, state |-> newState,
              start |-> (stateStartTime_ + stateDuration) % MillisModulus,
              cycles |-> cycleCountAfter(currentState_, newState, cycleCount_),
              ops |-> updateHardware(newState), elapsed |-> elapsedTime]
        ELSE [result |-> FALSE, state |-> currentState_,
              start |-> stateStartTime_, cycles |-> cycleCount_, ops |-> <<>>,
              elapsed |-> elapsedTime]

(* update() at time t: the result and the fields after the call *)
update(t) ==
    LET elapsedTime == ElapsedTime(t, stateStartTime_)
        stateDuration == getStateDuration(currentState_)
        newState == transitionTarget(currentState_, elapsedTime)
    IN  IF ~isInitialized_
        THEN [result |-> FALSE, state |-> currentState_,
              start |-> stateStartTime_, cycles |-> cycleCount_, ops |-> <<>>,
              elapsed |-> 0]
        ELSE IF IsExpired(elapsedTime, stateDuration)
        THEN [result |-> TRUE, state |-> newState, start |-> t,
              cycles |-> cycleCountAfter(currentState_, newState, cycleCount_),
              ops |-> updateHardware(newState), elapsed |-> elapsedTime]
        ELSE [result |-> FALSE, state |-> currentState_,
              start |-> stateStartTime_, cycles |-> cycleCount_, ops |-> <<>>,
              elapsed |-> elapsedTime]

(* History of an update() call with result u: the state it entered, or    *)
(* stayed in, was entered by a call whose elapsed time covered the        *)
(* duration of that state as well.                                        *)
Behind(u) ==
    IF u.result
    THEN u.elapsed >= getStateDuration(currentState_) + getStateDuration(u.state)
    ELSE upd.called /\ upd.behind

(* Mutant of getTimeRemainingInState(): the unsigned subtraction is made *)
(* without the test that precedes it.                                    *)
getTimeRemainingUnclamped(t) ==
    LET elapsedTime == ElapsedTime(t, stateStartTime_)
        stateDuration == getStateDuration(currentState_)
    IN  (stateDuration - elapsedTime + MillisModulus) % MillisModulus

(* getTimeRemainingInState() at time t *)
getTimeRemainingInState(t) ==
    LET elapsedTime == ElapsedTime(t, stateStartTime_)
        stateDuration == getStateDuration(currentState_)
    IN  IF elapsedTime >= stateDuration THEN 0 ELSE stateDuration - elapsedTime

----------------------------------------------------------------------------
(* main.cpp: setup() and the initializers it calls *)

(* Mutant of setup(): the state-machine step is left out. *)
InitializeHardwareThenContext ==
    /\ pcMain = "initializeHardware"
    /\ hwQueue' = hwQueue \o hwInitialize
    /\ pcMain' = "initializeSharedContext"
    /\ UNCHANGED <<now, pvParameters, pins, pinModes, envQueue, smVars, ctxVars, taskVars,
                   mgrVars, envVars, histVars>>

(* initializeHardware(); when getInstance() cannot allocate the controller, *)
(* g_hardwareController is null and fatalError() takes its branch that    *)
(* only waits ("halt").                                                   *)
InitializeHardware ==
    /\ pcMain = "initializeHardware"
    /\ \E newOk \in BOOLEAN :
          IF newOk
          THEN /\ hwQueue' = hwQueue \o hwInitialize
               /\ pcMain' = "initializeStateMachine"
          ELSE /\ pcMain' = "halt"
               /\ UNCHANGED hwQueue
    /\ UNCHANGED <<now, pvParameters, pins, pinModes, envQueue, smVars, ctxVars, taskVars,
                   mgrVars, envVars, histVars>>

InitializeStateMachine ==
    /\ pcMain = "initializeStateMachine"
    /\ hwQueue = <<>>
    /\ \E newOk \in BOOLEAN :
          IF newOk
          THEN LET b == begin(TRUE, now)
               IN  /\ isInitialized_' = TRUE
                   /\ currentState_' = b.state
                   /\ stateStartTime_' = b.start
                   /\ cycleCount_' = b.cycles
                   /\ hwQueue' = smInitialize(isInitialized_) \o b.ops
                   /\ pcMain' = "initializeSharedContext"
          ELSE /\ pcMain' = "fatalError"
               /\ UNCHANGED <<smVars, hwQueue>>
    /\ UNCHANGED <<now, pvParameters, pins, pinModes, envQueue, ctxVars, taskVars, mgrVars,
                   envVars, histVars>>

InitializeSharedContext ==
    /\ pcMain = "initializeSharedContext"
    /\ hwQueue = <<>>
    /\ \E newOk \in BOOLEAN, mutexOk \in BOOLEAN :
          IF newOk
          THEN /\ mutex_' = IF mutexOk THEN "MUTEX" ELSE "NULL"
               /\ systemActive_' = TRUE
               /\ totalTransitions_' = 0
               /\ pcMain' = "initializeTasks"
          ELSE /\ pcMain' = "fatalError"
               /\ UNCHANGED <<mutex_, systemActive_, totalTransitions_>>
    /\ UNCHANGED <<now, pvParameters, hwVars, smVars, mutexHolder, locked_, taskVars, mgrVars,
                   envVars, histVars>>

(* SemaphoreTasks.h: TaskManager::createTasks, with the results of the two *)
(* xTaskCreate calls: <<return value, control handle, monitor handle,      *)
(* tasksCreated_, position of the control task, of the monitor task>>      *)
(* Mutant of createTasks(): no test of tasksCreated_ on entry. *)
createTasksUnguarded(controlOk, monitorOk) ==
    IF ~controlOk
    THEN [ret |-> FALSE, control |-> semaphoreTaskHandle_,
          monitor |-> monitorTaskHandle_, created |-> tasksCreated_, tasks |-> pc]
    ELSE IF ~monitorOk
    THEN [ret |-> FALSE, control |-> "ctrl",
          monitor |-> monitorTaskHandle_, created |-> tasksCreated_,
          tasks |-> [pc EXCEPT !["ctrl"] = "deleted"]]
    ELSE [ret |-> TRUE, control |-> "ctrl", monitor |-> "mon", created |-> TRUE,
          tasks |-> [pc EXCEPT !["ctrl"] = "created", !["mon"] = "created"]]

(* Mutant of createTasks(): the control task is kept when the monitor task *)
(* cannot be created.                                                      *)
createTasksNoRollback(controlOk, monitorOk) ==
    IF tasksCreated_
    THEN [ret |-> TRUE, control |-> semaphoreTaskHandle_,
          monitor |-> monitorTaskHandle_, created |-> tasksCreated_, tasks |-> pc]
    ELSE IF ~controlOk
    THEN [ret |-> FALSE, control |-> semaphoreTaskHandle_,
          monitor |-> monitorTaskHandle_, created |-> tasksCreated_, tasks |-> pc]
    ELSE IF ~monitorOk
    THEN [ret |-> FALSE, control |-> "ctrl",
          monitor |-> monitorTaskHandle_, created |-> tasksCreated_,
          tasks |-> [pc EXCEPT !["ctrl"] = "created"]]
    ELSE [ret |-> TRUE, control |-> "ctrl", monitor |-> "mon", created |-> TRUE,
          tasks |-> [pc EXCEPT !["ctrl"] = "created", !["mon"] = "created"]]

createTasks(controlOk, monitorOk) ==
    IF tasksCreated_
    THEN [ret |-> TRUE, control |-> semaphoreTaskHandle_,
          monitor |-> monitorTaskHandle_, created |-> tasksCreated_, tasks |-> pc]
    ELSE IF ~controlOk
    THEN [ret |-> FALSE, control |-> semaphoreTaskHandle_,
          monitor |-> monitorTaskHandle_, created |-> tasksCreated_, tasks |-> pc]
    ELSE IF ~monitorOk
    THEN [ret |-> FALSE, control |-> "ctrl",
          monitor |-> monitorTaskHandle_, created |-> tasksCreated_,
          tasks |-> [pc EXCEPT !["ctrl"] = "deleted"]]
    ELSE [ret |-> TRUE, control |-> "ctrl", monitor |-> "mon", created |-> TRUE,
          tasks |-> [pc EXCEPT !["ctrl"] = "created", !["mon"] = "created"]]

InitializeTasks ==
    /\ pcMain = "initializeTasks"
    /\ \E newOk \in BOOLEAN, controlOk \in BOOLEAN, monitorOk \in BOOLEAN :
          IF newOk
          THEN LET c == createTasks(controlOk, monitorOk)
               IN  /\ semaphoreTaskHandle_' = c.control
                   /\ monitorTaskHandle_' = c.monitor
                   /\ tasksCreated_' = c.created
                   /\ pc' = c.tasks
                   /\ lastCall' = [op |-> "createTasks", ret |-> c.ret,
                                   from |-> currentState_, stopped |-> FALSE]
                   /\ pcMain' = IF c.ret THEN "startScheduler" ELSE "fatalError"
          ELSE /\ pcMain' = "fatalError"
               /\ UNCHANGED <<mgrVars, pc, lastCall>>
    /\ UNCHANGED <<now, pvParameters, hwVars, smVars, ctxVars, suspended, stateChanged,
                   lastWakeTime, report, envVars, trueUpdates, upd, lastAccess>>

StartScheduler ==
    /\ pcMain = "startScheduler"
    /\ \E started \in BOOLEAN :
          IF started
          THEN /\ pcMain' = "scheduler"
               /\ pc' = [pc EXCEPT !["ctrl"] = "entry", !["mon"] = "entry"]
          ELSE /\ pcMain' = "fatalError"
               /\ UNCHANGED pc
    /\ UNCHANGED <<now, pvParameters, hwVars, smVars, ctxVars, suspended, stateChanged,
                   lastWakeTime, report, mgrVars, envVars, histVars>>

(* main.cpp: vApplicationMallocFailedHook.  In a build whose kernel calls   *)
(* the hook, an allocation that fails inside xSemaphoreCreateMutex,         *)
(* xTaskCreate or vTaskStartScheduler enters fatalError() from within that  *)
(* call, which never returns; the second xTaskCreate may be the one that    *)
(* fails, the control task being already created.                           *)
MallocFailedHook ==
    /\ pcMain \in {"initializeSharedContext", "initializeTasks", "startScheduler"}
    /\ hwQueue = <<>>
    /\ pcMain' = "fatalError"
    /\ \E controlOk \in BOOLEAN :
          IF pcMain = "initializeTasks" /\ controlOk
          THEN /\ semaphoreTaskHandle_' = "ctrl"
               /\ pc' = [pc EXCEPT !["ctrl"] = "created"]
          ELSE UNCHANGED <<semaphoreTaskHandle_, pc>>
    /\ UNCHANGED <<now, pvParameters, hwVars, smVars, ctxVars, suspended, stateChanged,
                   lastWakeTime, report, monitorTaskHandle_, tasksCreated_,
                   envVars, histVars>>

(* main.cpp: vApplicationStackOverflowHook, called by the kernel at a       *)
(* context switch: turnAllLedsOff(), then fatalError(); no task runs again, *)
(* the pin writes a task had under way are not made.                        *)
StackOverflowHook ==
    /\ pcMain = "scheduler"
    /\ hwQueue' = turnAllLedsOff("stackOverflowHook", LedConfigurationDefault)
    /\ pcMain' = "fatalError"
    /\ UNCHANGED <<now, pvParameters, pins, pinModes, envQueue, smVars, ctxVars, taskVars,
                   mgrVars, envVars, histVars>>

(* Mutant of fatalError(): the blink loop never lights the LEDs. *)
FatalErrorDark ==
    /\ pcMain = "fatalError"
    /\ hwQueue = <<>>
    /\ hwQueue' = turnAllLedsOff("fatalError", LedConfigurationDefault)
                  \o turnAllLedsOff("fatalError", LedConfigurationDefault)
    /\ UNCHANGED <<now, pvParameters, pins, pinModes, envQueue, smVars, ctxVars, taskVars,
                   mgrVars, pcMain, envVars, histVars>>

(* Mutant of fatalError(): the handler returns to setup(), which goes on *)
(* to start the scheduler.                                              *)
FatalErrorReturns ==
    /\ pcMain = "fatalError"
    /\ hwQueue = <<>>
    /\ hwQueue' = turnAllLedsOff("fatalError", LedConfigurationDefault)
    /\ pcMain' = "startScheduler"
    /\ UNCHANGED <<now, pvParameters, pins, pinModes, envQueue, smVars, ctxVars, taskVars,
                   mgrVars, envVars, histVars>>

(* fatalError(), g_hardwareController not null: one turn of the blink loop *)
FatalError ==
    /\ pcMain = "fatalError"
    /\ hwQueue = <<>>
    /\ hwQueue' =
          turnAllLedsOff("fatalError", LedConfigurationDefault)
          \o setLedState(LED_RED_CAR, ON, "fatalError", LedConfigurationDefault)
          \o setLedState(LED_YELLOW_CAR, ON, "fatalError", LedConfigurationDefault)
          \o setLedState(LED_GREEN_CAR, ON, "fatalError", LedConfigurationDefault)
          \o setLedState(LED_RED_PEDESTRIAN, ON, "fatalError",
                         LedConfigurationDefault)
          \o setLedState(LED_GREEN_PEDESTRIAN, ON, "fatalError",
                         LedConfigurationDefault)
    /\ UNCHANGED <<now, pvParameters, pins, pinModes, envQueue, smVars, ctxVars, taskVars,
                   mgrVars, pcMain, envVars, histVars>>

----------------------------------------------------------------------------
(* SemaphoreTasks.h: SharedContext::lock / unlock and ScopedLock *)

(* Mutant of lock(): the mutex is not taken, the guard reports success. *)
lockGrantedNoMutex(holder) == TRUE

(* lock(): xSemaphoreTake(mutex_, portMAX_DELAY) returns once the mutex is free *)
lockGranted(holder) == holder = "none"

(* ScopedLock constructor run by task t: locked_ = context_.lock() *)
ScopedLockAcquire(t) ==
    /\ mutex_ # "NULL" => lockGranted(mutexHolder)
    /\ mutexHolder' = IF mutex_ # "NULL" THEN t ELSE mutexHolder
    /\ locked_' = [locked_ EXCEPT ![t] = (mutex_ # "NULL")]

(* Mutant of ~ScopedLock: the mutex is kept. *)
holderAfterReleaseKept(t, wasLocked, holder) == holder

(* ~ScopedLock: if (locked_) context_.unlock() *)
holderAfterRelease(t, wasLocked, holder) ==
    IF wasLocked /\ mutex_ # "NULL" THEN "none" ELSE holder

(* Mutant of ~ScopedLock: the guard forgets the mutex it took. *)
ScopedLockReleaseNever(t) ==
    /\ mutexHolder' = mutexHolder
    /\ locked_' = [locked_ EXCEPT ![t] = FALSE]

ScopedLockRelease(t) ==
    /\ mutexHolder' = holderAfterRelease(t, locked_[t], mutexHolder)
    /\ locked_' = [locked_ EXCEPT ![t] = FALSE]

Access(by, field) == [by |-> by, field |-> field, holder |-> mutexHolder]

(* The scheduler runs a task that is created, started and not suspended. *)
Runs(t) == pcMain = "scheduler" /\ ~suspended[t]

(* semaphoreControlTask has the higher priority: monitorTask runs only *)
(* while the control task is blocked, suspended or deleted.            *)
ControlBlocked ==
    \/ suspended["ctrl"]
    \/ pc["ctrl"] \in {"delay", "none", "deleted"}
    \/ pc["ctrl"] = "lock" /\ mutex_ # "NULL" /\ mutexHolder # "none"

----------------------------------------------------------------------------
(* SemaphoreTasks.h: semaphoreControlTask, one loop iteration *)

(* Mutant of semaphoreControlTask: the null test is missing. *)
CtrlEntryUnchecked ==
    /\ Runs("ctrl") /\ pc["ctrl"] = "entry"
    /\ pc' = [pc EXCEPT !["ctrl"] = "lock"]
    /\ UNCHANGED <<now, pvParameters, hwVars, smVars, ctxVars, suspended,
                   stateChanged, lastWakeTime, report, mgrVars, pcMain, envVars,
                   histVars>>

(* if (context == nullptr) { vTaskDelete(nullptr); return; } *)
CtrlEntry ==
    /\ Runs("ctrl") /\ pc["ctrl"] = "entry"
    /\ pc' = [pc EXCEPT !["ctrl"] =
                 IF pvParameters["ctrl"] = "NULL" THEN "deleted" ELSE "lock"]
    /\ UNCHANGED <<now, pvParameters, hwVars, smVars, ctxVars, suspended,
                   stateChanged, lastWakeTime, report, mgrVars, pcMain, envVars,
                   histVars>>

CtrlLock ==
    /\ Runs("ctrl") /\ pc["ctrl"] = "lock"
    /\ ScopedLockAcquire("ctrl")
    /\ pc' = [pc EXCEPT !["ctrl"] = "check"]
    /\ UNCHANGED <<now, pvParameters, hwVars, smVars, mutex_, systemActive_,
                   totalTransitions_, suspended, stateChanged, lastWakeTime,
                   report, mgrVars, pcMain, envVars, histVars>>

(* Mutant of semaphoreControlTask: the block runs without isLocked(). *)
CtrlCheckIgnoresLock ==
    /\ Runs("ctrl") /\ pc["ctrl"] = "check"
    /\ lastAccess' = Access("ctrl", "systemActive_")
    /\ pc' = [pc EXCEPT !["ctrl"] = IF systemActive_ THEN "update" ELSE "unlock"]
    /\ UNCHANGED <<now, pvParameters, hwVars, smVars, ctxVars, suspended, stateChanged,
                   lastWakeTime, report, mgrVars, pcMain, envVars, trueUpdates,
                   upd, lastCall>>

(* if (lock.isLocked() && context->isSystemActive()) *)
CtrlCheck ==
    /\ Runs("ctrl") /\ pc["ctrl"] = "check"
    /\ IF locked_["ctrl"]
       THEN /\ lastAccess' = Access("ctrl", "systemActive_")
            /\ pc' = [pc EXCEPT !["ctrl"] =
                         IF systemActive_ THEN "update" ELSE "unlock"]
       ELSE /\ pc' = [pc EXCEPT !["ctrl"] = "unlock"]
            /\ UNCHANGED lastAccess
    /\ UNCHANGED <<now, pvParameters, hwVars, smVars, ctxVars, suspended, stateChanged,
                   lastWakeTime, report, mgrVars, pcMain, envVars, trueUpdates,
                   upd, lastCall>>

(* bool stateChanged = context->getStateMachine().update() *)
CtrlUpdate ==
    /\ Runs("ctrl") /\ pc["ctrl"] = "update"
    /\ LET u == update(now)
       IN  /\ currentState_' = u.state
           /\ stateStartTime_' = u.start
           /\ cycleCount_' = u.cycles
           /\ hwQueue' = hwQueue \o u.ops
           /\ stateChanged' = u.result
           /\ trueUpdates' = IF u.result THEN trueUpdates + 1 ELSE trueUpdates
           /\ upd' = [called |-> TRUE, from |-> currentState_,
                      elapsed |-> u.elapsed, result |-> u.result,
                      behind |-> Behind(u)]
    /\ pc' = [pc EXCEPT !["ctrl"] = "increment"]
    /\ UNCHANGED <<now, pvParameters, pins, pinModes, envQueue, isInitialized_, ctxVars,
                   suspended, lastWakeTime, report, mgrVars, pcMain, envVars,
                   lastAccess, lastCall>>

(* Mutant of the counting in semaphoreControlTask: every update() counts. *)
countsTransitionAlways(changed) == TRUE

(* Mutant of the counting in semaphoreControlTask: no update() counts. *)
countsTransitionNever(changed) == FALSE

(* if (stateChanged) *)
countsTransition(changed) == changed

(* if (stateChanged) context->incrementTransitions() *)
CtrlIncrement ==
    /\ Runs("ctrl") /\ pc["ctrl"] = "increment"
    /\ hwQueue = <<>>
    /\ IF countsTransition(stateChanged)
       THEN /\ totalTransitions_' = totalTransitions_ + 1
            /\ lastAccess' = Access("ctrl", "totalTransitions_")
       ELSE UNCHANGED <<totalTransitions_, lastAccess>>
    /\ pc' = [pc EXCEPT !["ctrl"] = "unlock"]
    /\ UNCHANGED <<now, pvParameters, hwVars, smVars, mutex_, mutexHolder, systemActive_,
                   locked_, suspended, stateChanged, lastWakeTime, report,
                   mgrVars, pcMain, envVars, trueUpdates, upd, lastCall>>

(* end of the block: ~ScopedLock *)
CtrlUnlock ==
    /\ Runs("ctrl") /\ pc["ctrl"] = "unlock"
    /\ ScopedLockRelease("ctrl")
    /\ upd' = NoUpdate
    /\ stateChanged' = FALSE
    /\ pc' = [pc EXCEPT !["ctrl"] = "delay"]
    /\ UNCHANGED <<now, pvParameters, hwVars, smVars, mutex_, systemActive_,
                   totalTransitions_, suspended, lastWakeTime, report, mgrVars,
                   pcMain, envVars, trueUpdates, lastAccess, lastCall>>

(* vTaskDelay(pdMS_TO_TICKS(10)) returns *)
CtrlDelay ==
    /\ Runs("ctrl") /\ pc["ctrl"] = "delay"
    /\ pc' = [pc EXCEPT !["ctrl"] = "lock"]
    /\ UNCHANGED <<now, pvParameters, hwVars, smVars, ctxVars, suspended, stateChanged,
                   lastWakeTime, report, mgrVars, pcMain, envVars, histVars>>

----------------------------------------------------------------------------
(* SemaphoreTasks.h: monitorTask *)

(* if (context == nullptr) { vTaskDelete(nullptr); return; } *)
MonEntry ==
    /\ Runs("mon") /\ ControlBlocked /\ pc["mon"] = "entry"
    /\ pc' = [pc EXCEPT !["mon"] =
                 IF pvParameters["mon"] = "NULL" THEN "deleted" ELSE "init"]
    /\ UNCHANGED <<now, pvParameters, hwVars, smVars, ctxVars, suspended,
                   stateChanged, lastWakeTime, report, mgrVars, pcMain, envVars,
                   histVars>>

(* TickType_t lastWakeTime = xTaskGetTickCount() *)
MonInit ==
    /\ Runs("mon") /\ ControlBlocked /\ pc["mon"] = "init"
    /\ lastWakeTime' = now
    /\ pc' = [pc EXCEPT !["mon"] = "wait"]
    /\ UNCHANGED <<now, pvParameters, hwVars, smVars, ctxVars, suspended, stateChanged,
                   report, mgrVars, pcMain, envVars, histVars>>

(* Mutant of monitorTask: the wait restarts the period at the wake-up. *)
MonWaitDrifting ==
    /\ Runs("mon") /\ ControlBlocked /\ pc["mon"] = "wait"
    /\ ElapsedTime(now, lastWakeTime) >= MONITOR_PERIOD_MS
    /\ lastWakeTime' = now
    /\ pc' = [pc EXCEPT !["mon"] = "lock"]
    /\ UNCHANGED <<now, pvParameters, hwVars, smVars, ctxVars, suspended, stateChanged,
                   report, mgrVars, pcMain, envVars, histVars>>

(* the periodic wait returns at lastWakeTime + period and advances lastWakeTime *)
MonWait ==
    /\ Runs("mon") /\ ControlBlocked /\ pc["mon"] = "wait"
    /\ ElapsedTime(now, lastWakeTime) >= MONITOR_PERIOD_MS
    /\ lastWakeTime' = (lastWakeTime + MONITOR_PERIOD_MS) % MillisModulus
    /\ pc' = [pc EXCEPT !["mon"] = "lock"]
    /\ UNCHANGED <<now, pvParameters, hwVars, smVars, ctxVars, suspended, stateChanged,
                   report, mgrVars, pcMain, envVars, histVars>>

MonLock ==
    /\ Runs("mon") /\ ControlBlocked /\ pc["mon"] = "lock"
    /\ ScopedLockAcquire("mon")
    /\ pc' = [pc EXCEPT !["mon"] = "check"]
    /\ UNCHANGED <<now, pvParameters, hwVars, smVars, mutex_, systemActive_,
                   totalTransitions_, suspended, stateChanged, lastWakeTime,
                   report, mgrVars, pcMain, envVars, histVars>>

MonCheck ==
    /\ Runs("mon") /\ ControlBlocked /\ pc["mon"] = "check"
    /\ IF locked_["mon"]
       THEN /\ lastAccess' = Access("mon", "systemActive_")
            /\ pc' = [pc EXCEPT !["mon"] =
                         IF systemActive_ THEN "read" ELSE "unlock"]
       ELSE /\ pc' = [pc EXCEPT !["mon"] = "unlock"]
            /\ UNCHANGED lastAccess
    /\ UNCHANGED <<now, pvParameters, hwVars, smVars, ctxVars, suspended, stateChanged,
                   lastWakeTime, report, mgrVars, pcMain, envVars, trueUpdates,
                   upd, lastCall>>

(* Mutant of monitorTask: reporting counts as a transition. *)
MonReadCounts ==
    /\ Runs("mon") /\ ControlBlocked /\ pc["mon"] = "read"
    /\ report' = [printed |-> TRUE, state |-> toIndex(currentState_),
                  timeRemaining |-> getTimeRemainingInState(now),
                  cycleCount |-> cycleCount_,
                  totalTransitions |-> totalTransitions_,
                  previous |-> report.totalTransitions]
    /\ totalTransitions_' = totalTransitions_ + 1
    /\ lastAccess' = Access("mon", "totalTransitions_")
    /\ pc' = [pc EXCEPT !["mon"] = "unlock"]
    /\ UNCHANGED <<now, pvParameters, hwVars, smVars, mutex_, mutexHolder, systemActive_,
                   locked_, suspended, stateChanged, lastWakeTime, mgrVars,
                   pcMain, envVars, trueUpdates, upd, lastCall>>

(* the four reads and the status report *)
MonRead ==
    /\ Runs("mon") /\ ControlBlocked /\ pc["mon"] = "read"
    /\ report' = [printed |-> TRUE, state |-> toIndex(currentState_),
                  timeRemaining |-> getTimeRemainingInState(now),
                  cycleCount |-> cycleCount_,
                  totalTransitions |-> totalTransitions_,
                  previous |-> report.totalTransitions]
    /\ lastAccess' = Access("mon", "totalTransitions_")
    /\ pc' = [pc EXCEPT !["mon"] = "unlock"]
    /\ UNCHANGED <<now, pvParameters, hwVars, smVars, ctxVars, suspended, stateChanged,
                   lastWakeTime, mgrVars, pcMain, envVars, trueUpdates, upd,
                   lastCall>>

MonUnlock ==
    /\ Runs("mon") /\ ControlBlocked /\ pc["mon"] = "unlock"
    /\ ScopedLockRelease("mon")
    /\ report' = [NoReport EXCEPT !.totalTransitions = report.totalTransitions]
    /\ pc' = [pc EXCEPT !["mon"] = "wait"]
    /\ UNCHANGED <<now, pvParameters, hwVars, smVars, mutex_, systemActive_,
                   totalTransitions_, suspended, stateChanged, lastWakeTime,
                   mgrVars, pcMain, envVars, histVars>>

----------------------------------------------------------------------------
(* The public operations nothing in the repository calls: an external    *)
(* caller, in a context of its own, invokes them while the scheduler runs. *)

EnvCanCall == pcMain = "scheduler" /\ pcEnv = "idle" /\ envCalls < MaxEnvCalls

(* TaskManager::createTasks called again by the external caller *)
CreateTasks ==
    /\ EnvCanCall
    /\ \E controlOk \in BOOLEAN, monitorOk \in BOOLEAN :
          LET c == createTasks(controlOk, monitorOk)
          IN  /\ semaphoreTaskHandle_' = c.control
              /\ monitorTaskHandle_' = c.monitor
              /\ tasksCreated_' = c.created
              /\ pc' = c.tasks
              /\ lastCall' = [op |-> "createTasks", ret |-> c.ret,
                              from |-> currentState_, stopped |-> FALSE]
    /\ envCalls' = envCalls + 1
    /\ UNCHANGED <<now, pvParameters, hwVars, smVars, ctxVars, suspended, stateChanged,
                   lastWakeTime, report, pcMain, pcEnv, trueUpdates, upd,
                   lastAccess>>

(* Mutant of suspendAllTasks(): the control task is not suspended. *)
SuspendControlSkipped ==
    /\ EnvCanCall
    /\ pcEnv' = "suspendMonitor"
    /\ envCalls' = envCalls + 1
    /\ UNCHANGED <<now, pvParameters, hwVars, smVars, ctxVars, taskVars, mgrVars, pcMain,
                   histVars>>

(* TaskManager::suspendAllTasks, statement by statement *)
SuspendControl ==
    /\ EnvCanCall
    /\ suspended' = IF semaphoreTaskHandle_ # "NULL"
                    THEN [suspended EXCEPT !["ctrl"] = TRUE] ELSE suspended
    /\ pcEnv' = "suspendMonitor"
    /\ envCalls' = envCalls + 1
    /\ UNCHANGED <<now, pvParameters, hwVars, smVars, ctxVars, pc, stateChanged, lastWakeTime,
                   report, mgrVars, pcMain, histVars>>

SuspendMonitor ==
    /\ pcEnv = "suspendMonitor"
    /\ suspended' = IF monitorTaskHandle_ # "NULL"
                    THEN [suspended EXCEPT !["mon"] = TRUE] ELSE suspended
    /\ pcEnv' = "suspendFlag"
    /\ UNCHANGED <<now, pvParameters, hwVars, smVars, ctxVars, pc, stateChanged, lastWakeTime,
                   report, mgrVars, pcMain, envCalls, histVars>>

SuspendFlag ==
    /\ pcEnv = "suspendFlag"
    /\ systemActive_' = FALSE
    /\ lastAccess' = Access("env", "systemActive_")
    /\ pcEnv' = "idle"
    /\ UNCHANGED <<now, pvParameters, hwVars, smVars, mutex_, mutexHolder, totalTransitions_,
                   locked_, taskVars, mgrVars, pcMain, envCalls, trueUpdates,
                   upd, lastCall>>

(* TaskManager::resumeAllTasks, statement by statement *)
ResumeControl ==
    /\ EnvCanCall
    /\ suspended' = IF semaphoreTaskHandle_ # "NULL"
                    THEN [suspended EXCEPT !["ctrl"] = FALSE] ELSE suspended
    /\ pcEnv' = "resumeMonitor"
    /\ envCalls' = envCalls + 1
    /\ UNCHANGED <<now, pvParameters, hwVars, smVars, ctxVars, pc, stateChanged, lastWakeTime,
                   report, mgrVars, pcMain, histVars>>

ResumeMonitor ==
    /\ pcEnv = "resumeMonitor"
    /\ suspended' = IF monitorTaskHandle_ # "NULL"
                    THEN [suspended EXCEPT !["mon"] = FALSE] ELSE suspended
    /\ pcEnv' = "resumeFlag"
    /\ UNCHANGED <<now, pvParameters, hwVars, smVars, ctxVars, pc, stateChanged, lastWakeTime,
                   report, mgrVars, pcMain, envCalls, histVars>>

ResumeFlag ==
    /\ pcEnv = "resumeFlag"
    /\ systemActive_' = TRUE
    /\ lastAccess' = Access("env", "systemActive_")
    /\ pcEnv' = "idle"
    /\ UNCHANGED <<now, pvParameters, hwVars, smVars, mutex_, mutexHolder, totalTransitions_,
                   locked_, taskVars, mgrVars, pcMain, envCalls, trueUpdates,
                   upd, lastCall>>

(* SemaphoreStateMachine::emergencyStop *)
EmergencyStop ==
    /\ pcMain = "scheduler" /\ pcEnv = "idle" /\ envCalls < MaxStops
    /\ envQueue' = turnAllLedsOff("emergencyStop", LedConfigurationDefault)
    /\ pcEnv' = "emergencyStop"
    /\ envCalls' = envCalls + 1
    /\ UNCHANGED <<now, pvParameters, pins, pinModes, hwQueue, smVars, ctxVars, taskVars,
                   mgrVars, pcMain, histVars>>

(* One digitalWrite of the external caller's turnAllLedsOff. *)
EnvHwStep ==
    /\ pcEnv = "emergencyStop"
    /\ envQueue # <<>>
    /\ pins' = ExecPinOp(Head(envQueue), pins, pinModes)[1]
    /\ pinModes' = ExecPinOp(Head(envQueue), pins, pinModes)[2]
    /\ envQueue' = Tail(envQueue)
    /\ pcEnv' = IF Len(envQueue) = 1 THEN "idle" ELSE pcEnv
    /\ UNCHANGED <<now, pvParameters, hwQueue, smVars, ctxVars, taskVars, mgrVars, pcMain,
                   envCalls, histVars>>

----------------------------------------------------------------------------
(* Semaphore_State_Machine.h: the public operations of SemaphoreStateMachine *)
(* called one after the other, in any order and at any time, by a client   *)
(* that has constructed the machine over the hardware controller.          *)

(* SemaphoreStateMachine constructor; no task, no shared context *)
InitApi ==
    /\ now = 0
    /\ pins = [p \in Pins |-> OFF]
    /\ pinModes = [p \in Pins |-> "INPUT"]
    /\ hwQueue = <<>>
    /\ envQueue = <<>>
    /\ currentState_ = GREEN_CAR
    /\ stateStartTime_ = 0
    /\ cycleCount_ = 0
    /\ isInitialized_ = FALSE
    /\ mutex_ = "NULL"
    /\ mutexHolder = "none"
    /\ systemActive_ = TRUE
    /\ totalTransitions_ = 0
    /\ locked_ = [t \in Tasks |-> FALSE]
    /\ pvParameters = [t \in Tasks |-> "context"]
    /\ pc = [t \in Tasks |-> "none"]
    /\ suspended = [t \in Tasks |-> FALSE]
    /\ stateChanged = FALSE
    /\ lastWakeTime = 0
    /\ report = NoReport
    /\ semaphoreTaskHandle_ = "NULL"
    /\ monitorTaskHandle_ = "NULL"
    /\ tasksCreated_ = FALSE
    /\ pcMain = "api"
    /\ pcEnv = "idle"
    /\ envCalls = 0
    /\ trueUpdates = 0
    /\ upd = NoUpdate
    /\ lastAccess = NoAccess
    /\ lastCall = NoCall

(* The client's previous call has returned. *)
ApiCanCall == pcMain = "api" /\ hwQueue = <<>>

(* initialize() *)
ApiInitialize ==
    /\ ApiCanCall
    /\ hwQueue' = smInitialize(isInitialized_)
    /\ isInitialized_' = TRUE
    /\ upd' = NoUpdate
    /\ lastCall' = [op |-> "initialize", ret |-> TRUE, from |-> currentState_,
                    stopped |-> lastCall.stopped]
    /\ UNCHANGED <<now, pvParameters, pins, pinModes, envQueue, currentState_,
                   stateStartTime_, cycleCount_, ctxVars, taskVars, mgrVars,
                   pcMain, envVars, trueUpdates, lastAccess>>

(* begin() *)
ApiBegin ==
    /\ ApiCanCall
    /\ LET b == begin(isInitialized_, now)
       IN  /\ isInitialized_' = TRUE
           /\ currentState_' = b.state
           /\ stateStartTime_' = b.start
           /\ cycleCount_' = b.cycles
           /\ hwQueue' = b.ops
    /\ upd' = NoUpdate
    /\ lastCall' = [op |-> "begin", ret |-> TRUE, from |-> currentState_,
                    stopped |-> FALSE]
    /\ UNCHANGED <<now, pvParameters, pins, pinModes, envQueue, ctxVars, taskVars, mgrVars,
                   pcMain, envVars, trueUpdates, lastAccess>>

(* update() *)
ApiUpdate ==
    /\ ApiCanCall
    /\ LET u == update(now)
       IN  /\ currentState_' = u.state
           /\ stateStartTime_' = u.start
           /\ cycleCount_' = u.cycles
           /\ hwQueue' = u.ops
           /\ trueUpdates' = IF u.result THEN trueUpdates + 1 ELSE trueUpdates
           /\ upd' = [called |-> TRUE, from |-> currentState_,
                      elapsed |-> u.elapsed, result |-> u.result,
                      behind |-> Behind(u)]
           /\ lastCall' = [op |-> "update", ret |-> u.result,
                           from |-> currentState_,
                           stopped |-> ~u.result /\ lastCall.stopped]
    /\ UNCHANGED <<now, pvParameters, pins, pinModes, envQueue, isInitialized_, ctxVars,
                   taskVars, mgrVars, pcMain, envVars, lastAccess>>

(* Mutant of emergencyStop(): the timer of the current state is restarted. *)
ApiEmergencyStopRestarts ==
    /\ ApiCanCall
    /\ hwQueue' = turnAllLedsOff("emergencyStop", LedConfigurationDefault)
    /\ stateStartTime_' = now
    /\ upd' = NoUpdate
    /\ lastCall' = [op |-> "emergencyStop", ret |-> TRUE,
                    from |-> currentState_, stopped |-> TRUE]
    /\ UNCHANGED <<now, pvParameters, pins, pinModes, envQueue, currentState_, cycleCount_,
                   isInitialized_, ctxVars, taskVars, mgrVars, pcMain, envVars,
                   trueUpdates, lastAccess>>

(* emergencyStop() *)
ApiEmergencyStop ==
    /\ ApiCanCall
    /\ hwQueue' = turnAllLedsOff("emergencyStop", LedConfigurationDefault)
    /\ upd' = NoUpdate
    /\ lastCall' = [op |-> "emergencyStop", ret |-> TRUE,
                    from |-> currentState_, stopped |-> TRUE]
    /\ UNCHANGED <<now, pvParameters, pins, pinModes, envQueue, smVars, ctxVars, taskVars,
                   mgrVars, pcMain, envVars, trueUpdates, lastAccess>>

----------------------------------------------------------------------------
Setup ==
    \/ InitializeHardware
    \/ InitializeStateMachine
    \/ InitializeSharedContext
    \/ InitializeTasks
    \/ StartScheduler
    \/ MallocFailedHook
    \/ FatalError

Control == CtrlEntry \/ CtrlLock \/ CtrlCheck \/ CtrlUpdate \/ CtrlIncrement \/ CtrlUnlock
           \/ CtrlDelay

Monitor == MonEntry \/ MonInit \/ MonWait \/ MonLock \/ MonCheck \/ MonRead \/ MonUnlock

SuspendResume ==
    \/ SuspendControl \/ SuspendMonitor \/ SuspendFlag
    \/ ResumeControl \/ ResumeMonitor \/ ResumeFlag

Stop == EmergencyStop \/ EnvHwStep

(* The program as the repository runs it. *)
Next == Setup \/ HwStep \/ Control \/ Monitor \/ Tick(MaxTime)

Spec == Init /\ [][Next]_vars

(* The program with an external caller of the TaskManager operations. *)
NextEnv ==
    Setup \/ HwStep \/ Control \/ Monitor \/ SuspendResume \/ CreateTasks
    \/ Tick(MaxTimeEnv)

SpecEnv == Init /\ [][NextEnv]_vars

(* The program with an external caller of emergencyStop. *)
NextStop == Setup \/ HwStep \/ Control \/ Monitor \/ Stop \/ Tick(MaxTimeStop)

SpecStop == Init /\ [][NextStop]_vars

(* The program in a build where a task can overflow its stack; the handler *)
(* and the pin writes are code that runs whenever it can.                  *)
NextHook ==
    Setup \/ HwStep \/ Control \/ Monitor \/ StackOverflowHook
    \/ Tick(MaxTimeHook)

SpecHook ==
    Init /\ [][NextHook]_vars /\ WF_vars(FatalError) /\ WF_vars(HwStep)

(* The program under the FreeRTOS scheduler: the control task, of the      *)
(* higher priority, runs whenever it is ready, and so do the pin writes of *)
(* its HAL call; the monitor task runs in the intervals where the control  *)
(* task is blocked, which recur because the control task sleeps in         *)
(* vTaskDelay at the end of every iteration.                               *)
NextLive == Setup \/ HwStep \/ Control \/ Monitor \/ Tick(MaxTimeLive)

SpecLive ==
    /\ Init /\ [][NextLive]_vars
    /\ WF_vars(HwStep) /\ WF_vars(Control) /\ SF_vars(Monitor)

(* The task functions started by the scheduler with any argument, after a *)
(* startup that succeeded: xTaskCreate hands pvParameters to the function *)
(* as it is.                                                              *)
InitTask ==
    /\ now = 0
    /\ pvParameters \in [Tasks -> {"NULL", "context"}]
    /\ pins = [p \in Pins |->
                 IF p \in {LED_GREEN_CAR, LED_RED_PEDESTRIAN} THEN ON ELSE OFF]
    /\ pinModes = [p \in Pins |-> "OUTPUT"]
    /\ hwQueue = <<>>
    /\ envQueue = <<>>
    /\ currentState_ = GREEN_CAR
    /\ stateStartTime_ = 0
    /\ cycleCount_ = 1
    /\ isInitialized_ = TRUE
    /\ mutex_ = "MUTEX"
    /\ mutexHolder = "none"
    /\ systemActive_ = TRUE
    /\ totalTransitions_ = 0
    /\ locked_ = [t \in Tasks |-> FALSE]
    /\ pc = [t \in Tasks |-> "entry"]
    /\ suspended = [t \in Tasks |-> FALSE]
    /\ stateChanged = FALSE
    /\ lastWakeTime = 0
    /\ report = NoReport
    /\ semaphoreTaskHandle_ = "ctrl"
    /\ monitorTaskHandle_ = "mon"
    /\ tasksCreated_ = TRUE
    /\ pcMain = "scheduler"
    /\ pcEnv = "idle"
    /\ envCalls = 0
    /\ trueUpdates = 0
    /\ upd = NoUpdate
    /\ lastAccess = NoAccess
    /\ lastCall = [op |-> "createTasks", ret |-> TRUE, from |-> GREEN_CAR,
                   stopped |-> FALSE]

NextTask == HwStep \/ Control \/ Monitor \/ Tick(MaxTimeTask)

SpecTask == InitTask /\ [][NextTask]_vars

(* The state machine object driven by a client, without the tasks. *)
NextApi ==
    ApiInitialize \/ ApiBegin \/ ApiUpdate \/ ApiEmergencyStop \/ HwStep
    \/ Tick(MaxTimeApi)

SpecApi == InitApi /\ [][NextApi]_vars

(* The state machine object driven by a client while millis() wraps: the *)
(* client's first call is made when the counter is 10 s short of 2^32.   *)
WrapStart == MillisModulus - Ms(10000)

InitWrap ==
    /\ now = WrapStart
    /\ pvParameters = [t \in Tasks |-> "context"]
    /\ pins = [p \in Pins |-> OFF]
    /\ pinModes = [p \in Pins |-> "INPUT"]
    /\ hwQueue = <<>>
    /\ envQueue = <<>>
    /\ currentState_ = GREEN_CAR
    /\ stateStartTime_ = 0
    /\ cycleCount_ = 0
    /\ isInitialized_ = FALSE
    /\ mutex_ = "NULL"
    /\ mutexHolder = "none"
    /\ systemActive_ = TRUE
    /\ totalTransitions_ = 0
    /\ locked_ = [t \in Tasks |-> FALSE]
    /\ pc = [t \in Tasks |-> "none"]
    /\ suspended = [t \in Tasks |-> FALSE]
    /\ stateChanged = FALSE
    /\ lastWakeTime = 0
    /\ report = NoReport
    /\ semaphoreTaskHandle_ = "NULL"
    /\ monitorTaskHandle_ = "NULL"
    /\ tasksCreated_ = FALSE
    /\ pcMain = "api"
    /\ pcEnv = "idle"
    /\ envCalls = 0
    /\ trueUpdates = 0
    /\ upd = NoUpdate
    /\ lastAccess = NoAccess
    /\ lastCall = NoCall

(* millis() advances and wraps from 2^32 - 1 to 0. *)
TickWrap ==
    /\ \E d \in TickDeltas :
          /\ now >= WrapStart \/ now + d <= MaxTimeWrap
          /\ (now + d) % MillisModulus >= WrapStart
                \/ (now + d) % MillisModulus <= MaxTimeWrap
          /\ now' = (now + d) % MillisModulus
    /\ UNCHANGED <<pvParameters, hwVars, smVars, ctxVars, taskVars, mgrVars,
                   pcMain, envVars, histVars>>

NextWrap == ApiInitialize \/ ApiBegin \/ ApiUpdate \/ HwStep \/ TickWrap

SpecWrap == InitWrap /\ [][NextWrap]_vars

----------------------------------------------------------------------------
(* Vocabulary of the properties *)

\* The light cycle, written out state by state.
CycleOrder == <<GREEN_CAR, YELLOW_CAR, SAFETY_GAP_BEFORE, GREEN_PEDESTRIAN,
                SAFETY_GAP_AFTER>>
CyclicSuccessor(s) ==
    LET i == CHOOSE k \in 1..Len(CycleOrder) : CycleOrder[k] = s
    IN  CycleOrder[(i % Len(CycleOrder)) + 1]

\* A state and the four that follow it in the cycle.
StatesFrom(s) ==
    LET s1 == CyclicSuccessor(s)
        s2 == CyclicSuccessor(s1)
        s3 == CyclicSuccessor(s2)
        s4 == CyclicSuccessor(s3)
    IN  {s, s1, s2, s3, s4}

\* The channels that are lit on the port, and those a configuration lights.
OnPins == {p \in Pins : pins[p] = ON}
ConfigOn(config) ==
    {p \in Pins :
        \/ p = LED_RED_CAR /\ config.redCar = ON
        \/ p = LED_YELLOW_CAR /\ config.yellowCar = ON
        \/ p = LED_GREEN_CAR /\ config.greenCar = ON
        \/ p = LED_RED_PEDESTRIAN /\ config.redPedestrian = ON
        \/ p = LED_GREEN_PEDESTRIAN /\ config.greenPedestrian = ON}

\* Pin operations of the applyConfiguration call in progress still to come,
\* and the configuration that call applies.
ApplyRemaining ==
    Cardinality({i \in 1..Len(hwQueue) : hwQueue[i].call = "applyConfiguration"})
ApplyConfig == hwQueue[Len(hwQueue)].config

\* Task t is inside its lock-protected block.
InCriticalSection(t) ==
    pc[t] \in {"check", "update", "increment", "read", "unlock"} /\ locked_[t]

----------------------------------------------------------------------------
(* C1: every change of the current state goes from a state to its cyclic   *)
(* successor, and every update() that returns true makes such a change.    *)
C1_CycleOrder ==
    [][(currentState_' # currentState_ \/ (upd'.called /\ ~upd.called /\ upd'.result))
        => currentState_' = CyclicSuccessor(currentState_)]_vars

\* The cycle has wrapped: the last state was left for the first one.
C1_Witness ==
    upd.called /\ upd.result /\ upd.from = SAFETY_GAP_AFTER
    /\ currentState_ = GREEN_CAR

(* C2: outside the fatal-error path, vehicle green and pedestrian green are *)
(* never lit together, in any pin state the port passes through (startup,   *)
(* every write of applyConfiguration, emergencyStop).                       *)
C2_NoConflictingGreens ==
    pcMain # "fatalError"
        => ~(pins[LED_GREEN_CAR] = ON /\ pins[LED_GREEN_PEDESTRIAN] = ON)

\* Pedestrian green is lit after an emergency stop was called.
C2_Witness ==
    pcMain = "scheduler" /\ pins[LED_GREEN_PEDESTRIAN] = ON /\ envCalls > 0

(* C3: an update() whose elapsed time covers the current state and the next *)
(* one as well leaves the machine in the immediate successor only.          *)
C3_SingleStep ==
    (upd.called /\ upd.elapsed >= getStateDuration(upd.from)
                                  + getStateDuration(CyclicSuccessor(upd.from)))
        => upd.result /\ currentState_ = CyclicSuccessor(upd.from)

C3_Witness ==
    /\ upd.called /\ upd.result
    /\ upd.elapsed >= getStateDuration(upd.from)
                      + getStateDuration(CyclicSuccessor(upd.from))
    /\ currentState_ = CyclicSuccessor(upd.from)

(* C4: the two tasks are never both inside their lock-protected blocks, and *)
(* a task inside its block is the holder of the mutex.                      *)
C4_MutualExclusion ==
    /\ ~(InCriticalSection("ctrl") /\ InCriticalSection("mon"))
    /\ \A t \in Tasks : locked_[t] => mutexHolder = t

\* Contention: the monitor holds the lock while the control task waits for it.
C4_Witness ==
    pc["ctrl"] = "lock" /\ InCriticalSection("mon") /\ pc["mon"] = "read"

(* C5: the transition counter the monitor reads equals the number of        *)
(* update() calls that returned true, is never below the previous read, and *)
(* outside the update/increment pair the counter equals that number.        *)
C5_CounterMatchesUpdates ==
    /\ report.printed =>
          /\ report.totalTransitions = trueUpdates
          /\ report.totalTransitions >= report.previous
    /\ pc["ctrl"] # "increment" => totalTransitions_ = trueUpdates

\* The monitor reads a counter that has grown since its previous read.
C5_Witness ==
    report.printed /\ report.totalTransitions > report.previous
    /\ report.previous > 0

(* C6: every access to the active flag and to the transition counter is     *)
(* made by a caller that holds the shared lock.                             *)
C6_AccessUnderLock ==
    lastAccess.by # "none" => lastAccess.holder = lastAccess.by

(* C7: the lock is not held by the control task during its sleep nor by the *)
(* monitor task while it waits for its next period.                         *)
C7_ReleasedBeforeWait ==
    /\ pc["ctrl"] = "delay" => ~locked_["ctrl"] /\ mutexHolder # "ctrl"
    /\ pc["mon"] = "wait" => ~locked_["mon"] /\ mutexHolder # "mon"

\* The control task sleeps after an iteration that took the lock and found
\* the system inactive.
C7_Witness ==
    /\ pc["ctrl"] = "delay" /\ mutex_ = "MUTEX" /\ mutexHolder = "none"
    /\ lastAccess = [by |-> "ctrl", field |-> "systemActive_", holder |-> "ctrl"]
    /\ ~systemActive_

(* C8: after begin() the cycle count is 1 plus the number of complete       *)
(* traversals of the five states, and 0 before begin().                     *)
C8_CycleCount ==
    /\ isInitialized_ => cycleCount_ = 1 + (trueUpdates \div TOTAL_STATES)
    /\ ~isInitialized_ => cycleCount_ = 0

\* One complete traversal: the count reads 2.
C8_Witness ==
    cycleCount_ = 2 /\ trueUpdates = TOTAL_STATES /\ currentState_ = GREEN_CAR

(* C9 as stated: in every intermediate pin state of an applyConfiguration   *)
(* call, the lit channels are among those the configuration lights.         *)
C9_Original ==
    ApplyRemaining \in 1..9 => OnPins \subseteq ConfigOn(ApplyConfig)

(* C9 amended: applyConfiguration first writes all five channels OFF; the   *)
(* port is all-OFF when the fifth OFF write is done, and from then on the   *)
(* lit channels are among those the configuration lights.                   *)
C9_GlitchFree ==
    /\ ApplyRemaining = 5 => OnPins = {}
    /\ ApplyRemaining \in 1..5 => OnPins \subseteq ConfigOn(ApplyConfig)
    /\ ApplyRemaining > 5 =>
          \A i \in 1..(Len(hwQueue) - 5) : hwQueue[i].level = OFF

\* Half-way through the new pattern of YELLOW_CAR, the old one being gone.
C9_Witness ==
    /\ ApplyRemaining = 3 /\ currentState_ = YELLOW_CAR
    /\ OnPins = {LED_YELLOW_CAR}

(* C10: no entry of the state table lights vehicle green together with      *)
(* pedestrian green, and an entry that lights pedestrian green lights       *)
(* neither vehicle green nor vehicle yellow.  The entries are those of the  *)
(* current state and of the four states that follow it in the cycle, which  *)
(* are all five.                                                            *)
C10_TableExclusive ==
    \A s \in StatesFrom(currentState_) :
        LET c == getLedConfiguration(s)
        IN  /\ ~(c.greenCar = ON /\ c.greenPedestrian = ON)
            /\ c.greenPedestrian = ON => c.greenCar = OFF /\ c.yellowCar = OFF

\* The pedestrian-green entry is the one in force on the port.
C10_Witness ==
    /\ currentState_ = GREEN_PEDESTRIAN /\ hwQueue = <<>>
    /\ OnPins = ConfigOn(getLedConfiguration(GREEN_PEDESTRIAN))
    /\ LED_GREEN_PEDESTRIAN \in OnPins

(* C11: update() returns true exactly when the machine is initialized and   *)
(* the time elapsed since the current state began is at least the state's   *)
(* table duration, and then the machine is in the cyclic successor with the *)
(* start timestamp set to the time of the call; an update() that returns    *)
(* false leaves the current state, the start timestamp, the cycle counter   *)
(* and the hardware outputs unchanged.                                      *)
C11_UpdateContract ==
    [][(lastCall'.op = "update" /\ lastCall' # lastCall) =>
         LET expired ==
                 /\ isInitialized_
                 /\ ElapsedTime(now, stateStartTime_)
                        >= getStateDuration(currentState_)
         IN  /\ lastCall'.ret = expired
             /\ expired => /\ currentState_' = CyclicSuccessor(currentState_)
                            /\ stateStartTime_' = now
             /\ ~expired => UNCHANGED <<smVars, pins, pinModes, hwQueue>>]_vars

\* update() has returned false on an initialized machine three quarters of
\* the way through the vehicle-green state.
C11_Witness ==
    /\ lastCall.op = "update" /\ ~lastCall.ret /\ isInitialized_
    /\ currentState_ = GREEN_CAR
    /\ ElapsedTime(now, stateStartTime_) = GREEN_CAR_DURATION - Ms(5000)
    /\ OnPins = ConfigOn(getLedConfiguration(GREEN_CAR))

(* C12: the time remaining that the monitor reads is duration - elapsed     *)
(* while elapsed < duration and exactly 0 once elapsed >= duration, also    *)
(* when update() has not yet advanced the expired state; it is never more   *)
(* than the state's duration.                                               *)
C12_TimeRemaining ==
    [][(report'.printed /\ ~report.printed) =>
         LET elapsedTime == ElapsedTime(now, stateStartTime_)
             stateDuration == getStateDuration(currentState_)
         IN  /\ elapsedTime < stateDuration
                   => report'.timeRemaining = stateDuration - elapsedTime
             /\ elapsedTime >= stateDuration => report'.timeRemaining = 0
             /\ report'.timeRemaining \in 0..stateDuration]_vars

\* The monitor reads 0 for a state that expired some time ago and that
\* update() has not yet left.
C12_Witness ==
    /\ report.printed /\ report.timeRemaining = 0
    /\ report.state = toIndex(currentState_)
    /\ ElapsedTime(now, stateStartTime_) > getStateDuration(currentState_)
    /\ pc["mon"] = "unlock"

\* The positions of setup() inside fatalError(): the blink loop and the loop
\* that only waits.
FatalPath == {"fatalError", "halt"}

\* The startup steps of setup(), each paired with the one that follows it.
StartupOrder ==
    {<<"initializeHardware", "initializeStateMachine">>,
     <<"initializeStateMachine", "initializeSharedContext">>,
     <<"initializeSharedContext", "initializeTasks">>,
     <<"initializeTasks", "startScheduler">>,
     <<"startScheduler", "scheduler">>}

\* begin() has run to completion on an initialized port.
BeginCompleted ==
    /\ isInitialized_ /\ cycleCount_ >= 1 /\ hwQueue = <<>>
    /\ \A p \in Pins : pinModes[p] = "OUTPUT"

(* C13: setup() goes through hardware init, state-machine initialize+begin, *)
(* shared-context construction, task creation and scheduler start in that   *)
(* order, each step starting when the previous one is complete (or it       *)
(* enters the fatal-error path); every update() call is made while the      *)
(* scheduler runs, after begin() has completed.                             *)
C13_StartupOrder ==
    [][/\ pcMain' # pcMain =>
             pcMain' \in FatalPath \/ <<pcMain, pcMain'>> \in StartupOrder
       /\ (pcMain = "initializeStateMachine" /\ pcMain' # pcMain) =>
             hwQueue = <<>> /\ \A p \in Pins : pinModes[p] = "OUTPUT"
       /\ (pcMain = "initializeSharedContext" /\ pcMain' # pcMain) =>
             /\ BeginCompleted /\ cycleCount_ = 1
             /\ OnPins = ConfigOn(getLedConfiguration(GREEN_CAR))
       /\ (pcMain' = "scheduler" /\ pcMain' # pcMain) =>
             tasksCreated_ /\ BeginCompleted
       /\ (upd'.called /\ ~upd.called) =>
             pcMain = "scheduler" /\ BeginCompleted]_vars

\* The first update() that returns true, made by the control task after a
\* complete startup.
C13_Witness ==
    /\ pcMain = "scheduler" /\ tasksCreated_ /\ mutex_ = "MUTEX"
    /\ upd.called /\ upd.result /\ trueUpdates = 1

(* C14 as stated: when the creation of the shared lock fails, startup does  *)
(* not go on to create the tasks and start the scheduler: past the          *)
(* shared-context step the context has its lock.                            *)
C14_LockFailureIsFatal ==
    pcMain \in {"initializeTasks", "startScheduler", "scheduler"}
        => mutex_ # "NULL"

\* Positions of a task that the scheduler has never run.
NotStarted == {"none", "created", "deleted"}

(* C15: once setup() is in the fatal-error handler it stays there: no       *)
(* startup step executes, no field of the state machine, the shared context *)
(* or the task manager changes, and no task ever runs; setup() leaves the   *)
(* hardware step only with the port initialization under way, the           *)
(* state-machine step only with the machine begun, the task step only with  *)
(* createTasks() having returned true, and a failed createTasks() leads to  *)
(* the handler.                                                             *)
C15_FailureIsFatal ==
    [][/\ pcMain \in FatalPath =>
             /\ pcMain' = pcMain
             /\ UNCHANGED <<smVars, ctxVars, taskVars, mgrVars>>
             /\ \A t \in Tasks : pc[t] \in NotStarted
       /\ (pcMain = "initializeHardware" /\ pcMain' \notin {pcMain} \cup FatalPath)
             => hwQueue' = hwInitialize
       /\ (pcMain = "initializeStateMachine"
            /\ pcMain' \notin {pcMain} \cup FatalPath)
             => isInitialized_' /\ cycleCount_' = 1
       /\ (pcMain = "initializeTasks" /\ pcMain' \notin {pcMain} \cup FatalPath)
             => lastCall'.op = "createTasks" /\ lastCall'.ret /\ tasksCreated_'
       /\ (pcMain = "initializeTasks" /\ lastCall'.op = "createTasks"
            /\ ~lastCall'.ret)
             => pcMain' = "fatalError"
       /\ pcMain' = "halt" => pinModes' = [p \in Pins |-> "INPUT"]]_vars

\* The handler blinks after createTasks() failed: every LED is lit.
C15_Witness ==
    /\ pcMain = "fatalError" /\ lastCall.op = "createTasks" /\ ~lastCall.ret
    /\ OnPins = Pins /\ hwQueue = <<>>

C17_Rollback ==
    (lastCall.op = "createTasks" /\ ~lastCall.ret) =>
        /\ ~tasksCreated_
        /\ monitorTaskHandle_ = "NULL"
        /\ \A t \in Tasks : pc[t] \in {"none", "deleted"}
        /\ semaphoreTaskHandle_ # "NULL" => pc["ctrl"] = "deleted"

\* The control task was created and then deleted.
C17_Witness ==
    /\ lastCall.op = "createTasks" /\ ~lastCall.ret
    /\ pc["ctrl"] = "deleted" /\ pc["mon"] = "none" /\ pcMain = "fatalError"

\* suspendAllTasks() has returned and no resumeAllTasks() call that follows
\* it has yet resumed a task.
SuspendedWindow ==
    pcMain = "scheduler" /\ ~systemActive_
    /\ pcEnv \notin {"resumeMonitor", "resumeFlag"}

\* resumeAllTasks() has returned (or no suspension was ever made).
ResumedWindow == pcMain = "scheduler" /\ systemActive_ /\ pcEnv = "idle"

(* C18: after suspendAllTasks() returns both tasks are suspended and the    *)
(* active flag is false; after resumeAllTasks() returns both tasks are      *)
(* runnable and the flag is true; from the return of suspendAllTasks() to   *)
(* the next resumeAllTasks() call no update() is invoked, the state machine *)
(* fields and the transition counter keep their values, and the monitor     *)
(* prints no report.                                                        *)
C18_SuspendResume ==
    [][/\ SuspendedWindow' => suspended'["ctrl"] /\ suspended'["mon"]
       /\ ResumedWindow' => ~suspended'["ctrl"] /\ ~suspended'["mon"]
       /\ SuspendedWindow =>
             UNCHANGED <<smVars, totalTransitions_, report, upd, trueUpdates,
                         pc, pins>>]_vars

\* The tasks are suspended, the control task just before its update() call,
\* and the current state has expired in the meantime.
C18_Witness ==
    /\ SuspendedWindow /\ pcEnv = "idle"
    /\ suspended["ctrl"] /\ suspended["mon"]
    /\ pc["ctrl"] = "update"
    /\ ElapsedTime(now, stateStartTime_) >= getStateDuration(currentState_)

\* The client's call that starts in this step is a call of op.
ApiCalls(op) == hwQueue = <<>> /\ hwQueue' # <<>> /\ lastCall'.op = op

(* C19: emergencyStop() changes neither the current state, the start        *)
(* timestamp, the cycle counter nor the initialized flag, so that update()  *)
(* at any given time gives the same result and the same fields as it would  *)
(* have without the call; when emergencyStop() returns all five outputs     *)
(* are OFF.                                                                 *)
C19_EmergencyStopFrame ==
    [][/\ ApiCalls("emergencyStop") =>
             UNCHANGED smVars /\ update(now)' = update(now)
       /\ (lastCall.op = "emergencyStop" /\ hwQueue # <<>>) =>
             UNCHANGED smVars
       /\ (lastCall'.op = "emergencyStop" /\ hwQueue' = <<>>) =>
             OnPins' = {}]_vars

\* emergencyStop() has returned on a machine showing pedestrian green.
C19_Witness ==
    /\ lastCall.op = "emergencyStop" /\ hwQueue = <<>> /\ OnPins = {}
    /\ isInitialized_ /\ currentState_ = GREEN_PEDESTRIAN /\ cycleCount_ = 1
    /\ stateStartTime_ > 0

(* C20: begin(), on a machine not yet initialized or running in any state,  *)
(* leaves it initialized, in GREEN_CAR, with the start timestamp equal to   *)
(* the time of the call and cycle count 1; when begin() returns the outputs *)
(* are those of the GREEN_CAR table entry, on pins configured as outputs.   *)
C20_BeginContract ==
    [][/\ ApiCalls("begin") => stateStartTime_' = now
       /\ lastCall'.op = "begin" =>
             /\ isInitialized_' /\ currentState_' = GREEN_CAR
             /\ cycleCount_' = 1
             /\ hwQueue' = <<>> =>
                   /\ OnPins' = ConfigOn(getLedConfiguration(GREEN_CAR))
                   /\ \A p \in Pins : pinModes'[p] = "OUTPUT"]_vars

\* begin() has returned after being called on a machine that was showing
\* pedestrian green.
C20_Witness ==
    /\ lastCall.op = "begin" /\ lastCall.from = GREEN_PEDESTRIAN
    /\ hwQueue = <<>> /\ currentState_ = GREEN_CAR /\ cycleCount_ = 1
    /\ stateStartTime_ = now /\ now > 0
    /\ OnPins = ConfigOn(getLedConfiguration(GREEN_CAR))

(* C21: update() on a machine that has not been initialized returns false   *)
(* and leaves the current state, the start timestamp, the cycle counter and *)
(* the hardware port as they are, whatever the time elapsed.                *)
C21_UninitializedUpdate ==
    [][(~isInitialized_ /\ lastCall'.op = "update" /\ upd'.called) =>
         /\ ~lastCall'.ret /\ ~upd'.result
         /\ UNCHANGED <<smVars, pins, pinModes, hwQueue, trueUpdates>>]_vars

\* update() was called on the uninitialized machine after more than the
\* vehicle-green duration.
C21_Witness ==
    /\ ~isInitialized_ /\ lastCall.op = "update" /\ ~lastCall.ret
    /\ upd.called /\ cycleCount_ = 0 /\ currentState_ = GREEN_CAR
    /\ ElapsedTime(now, stateStartTime_) > GREEN_CAR_DURATION
    /\ \A p \in Pins : pinModes[p] = "INPUT"

\* Pin operations of the hardware port's initialize() in a queue.
InitializeOps(q) == {i \in 1..Len(q) : q[i].call = "initialize"}

(* C22: over any sequence of initialize() and begin() calls the state       *)
(* machine invokes the hardware port's initialize() on the first of them    *)
(* and on no other: the initialized flag never falls back, a call made with *)
(* the flag set invokes no port initialization, and a repeat initialize()   *)
(* changes neither the machine's fields nor the port.                       *)
C22_InitializeOnce ==
    [][/\ isInitialized_ => isInitialized_'
       /\ (hwQueue = <<>> /\ InitializeOps(hwQueue') # {}) =>
             /\ ~isInitialized_ /\ isInitialized_'
             /\ lastCall'.op \in {"initialize", "begin"}
             /\ SubSeq(hwQueue', 1, Len(hwInitialize)) = hwInitialize
             /\ Cardinality(InitializeOps(hwQueue')) = Len(hwInitialize)
       /\ (~isInitialized_ /\ isInitialized_') => InitializeOps(hwQueue') # {}
       /\ (isInitialized_ /\ lastCall'.op = "initialize"
            /\ lastCall' # lastCall) =>
             UNCHANGED <<smVars, pins, pinModes, hwQueue>>]_vars

\* initialize() has been called again on a machine showing vehicle yellow.
C22_Witness ==
    /\ lastCall.op = "initialize" /\ lastCall.from = YELLOW_CAR
    /\ isInitialized_ /\ currentState_ = YELLOW_CAR /\ hwQueue = <<>>
    /\ OnPins = ConfigOn(getLedConfiguration(YELLOW_CAR))

(* C23: while the scheduler runs, a step of the monitor task changes no     *)
(* output channel, no pending pin write, no field of the state machine,     *)
(* neither the active flag nor the transition counter; those change only in *)
(* steps of the control task.                                               *)
C23_MonitorReadsOnly ==
    [][pcMain = "scheduler" =>
         /\ pc'["mon"] # pc["mon"] =>
               UNCHANGED <<pins, pinModes, hwQueue, smVars, systemActive_,
                           totalTransitions_>>
         /\ <<smVars, systemActive_, totalTransitions_>>'
               # <<smVars, systemActive_, totalTransitions_>>
               => pc'["ctrl"] # pc["ctrl"] /\ pc'["mon"] = pc["mon"]
         /\ pins' # pins => hwQueue' = Tail(hwQueue) /\ pc' = pc]_vars

\* The monitor has printed a report during pedestrian green, after three
\* transitions made by the control task.
C23_Witness ==
    /\ pcMain = "scheduler" /\ report.printed /\ pc["mon"] = "unlock"
    /\ currentState_ = GREEN_PEDESTRIAN /\ totalTransitions_ = 3
    /\ report.totalTransitions = 3
    /\ OnPins = ConfigOn(getLedConfiguration(GREEN_PEDESTRIAN))

\* The calls through which the fatal-error path writes to the port.
FatalCalls == {"fatalError", "stackOverflowHook"}

(* C24: once fatalError() has been entered with a hardware port (from a     *)
(* failed startup step, a failed scheduler start, the stack-overflow hook   *)
(* or the malloc-failed hook) it is never left, nothing but the outputs     *)
(* changes apart from the clock, the outputs come to all-OFF and to all-ON  *)
(* again and again, and every pin write pending is one of the handler's     *)
(* own, none a state-table pattern.                                         *)
C24_FatalBlink ==
    /\ [][pcMain = "fatalError" =>
             /\ pcMain' = "fatalError"
             /\ UNCHANGED <<pinModes, smVars, ctxVars, taskVars, mgrVars,
                            histVars>>]_vars
    /\ [](pcMain = "fatalError" =>
             \A i \in 1..Len(hwQueue) :
                 /\ hwQueue[i].call \in FatalCalls
                 /\ hwQueue[i].kind = "digitalWrite")
    /\ (pcMain = "fatalError") ~> (pcMain = "fatalError" /\ OnPins = {})
    /\ (pcMain = "fatalError") ~> (pcMain = "fatalError" /\ OnPins = Pins)

\* The handler, entered from the stack-overflow hook after the light had run
\* a transition, has all five outputs ON at the end of a blink period.
C24_Witness ==
    /\ pcMain = "fatalError" /\ OnPins = Pins /\ hwQueue = <<>>
    /\ trueUpdates > 0 /\ currentState_ = YELLOW_CAR

(* C25: on the fatal-error path the vehicle-green and the pedestrian-green  *)
(* outputs are never ON together.                                           *)
C25_NoConflictingGreen ==
    pcMain = "fatalError" =>
        ~(pins[LED_GREEN_CAR] = ON /\ pins[LED_GREEN_PEDESTRIAN] = ON)

MonitorDue ==
    /\ pcMain = "scheduler" /\ systemActive_ /\ pc["mon"] = "wait"
    /\ ElapsedTime(now, lastWakeTime) >= MONITOR_PERIOD_MS

(* C27: under the priority scheduler, while the system is active, each      *)
(* period deadline of the monitor task is followed by the monitor holding   *)
(* the lock and emitting a status report.                                   *)
C27_MonitorNotStarved ==
    MonitorDue ~> (locked_["mon"] /\ report.printed)

\* State s of the running, active system has lasted its full duration.
StateExpired(s) ==
    /\ pcMain = "scheduler" /\ systemActive_ /\ currentState_ = s
    /\ ElapsedTime(now, stateStartTime_) >= getStateDuration(s)

(* C28: once startup has completed and while the system is active, every    *)
(* state that has lasted its duration is left for its successor in the      *)
(* cycle.                                                                   *)
C28_NoTerminalState ==
    \A s \in SemaphoreState : StateExpired(s) ~> (currentState_ = CyclicSuccessor(s))

(* C29: neither task blocks in its lock acquisition forever: every attempt  *)
(* returns, and an attempt that waits on the lock with the unbounded wait   *)
(* is granted.                                                              *)
C29_LockGranted ==
    \A t \in {"ctrl", "mon"} :
        (pcMain = "scheduler" /\ pc[t] = "lock")
            ~> (pc[t] = "check" /\ (mutex_ # "NULL" => locked_[t] /\ mutexHolder = t))

\* The control task waits for the lock while the monitor task holds it
\* inside its report.
C29_Witness ==
    /\ pcMain = "scheduler" /\ pc["ctrl"] = "lock" /\ mutex_ # "NULL"
    /\ mutexHolder = "mon" /\ pc["mon"] = "read" /\ locked_["mon"]

\* What a loop iteration of a task may touch inside its protected block.
ProtectedData ==
    <<smVars, pins, pinModes, hwQueue, totalTransitions_, systemActive_,
      report, trueUpdates, lastAccess>>

\* Where task t waits after its protected block.
NormalWait(t) == IF t = "ctrl" THEN "delay" ELSE "wait"

(* C30: an acquisition fails only where the lock was never created (the     *)
(* wait has no timeout).  The iteration of a task whose acquisition failed  *)
(* goes from the test straight to the end of the block, without update(),   *)
(* counter increment, state read or report, leaves the mutex as it is, and  *)
(* the task goes on to its normal wait and from there to the next attempt.  *)
C30_FailedAcquisition ==
    /\ [](\A t \in {"ctrl", "mon"} :
             pc[t] \in {"update", "increment", "read"} => locked_[t])
    /\ [][\A t \in {"ctrl", "mon"} :
             /\ (pc[t] = "lock" /\ pc'[t] = "check" /\ ~locked_'[t]) =>
                   mutex_ = "NULL" /\ UNCHANGED <<mutexHolder, ProtectedData>>
             /\ (pc[t] = "check" /\ ~locked_[t] /\ pc'[t] # pc[t]) =>
                   /\ pc'[t] = "unlock" /\ ~locked_'[t]
                   /\ UNCHANGED <<mutexHolder, ProtectedData, upd>>
             /\ (pc[t] = "unlock" /\ ~locked_[t] /\ pc'[t] # pc[t]) =>
                   /\ pc'[t] = NormalWait(t) /\ ~locked_'[t]
                   /\ UNCHANGED <<mutexHolder, ProtectedData, upd>>
             /\ (pc[t] = NormalWait(t) /\ pc'[t] # pc[t]) =>
                   pc'[t] = "lock"]_vars

\* Without a lock the control task has gone through an iteration and sleeps;
\* the vehicle green has lasted its duration and update() was never called.
C30_Witness ==
    /\ pcMain = "scheduler" /\ mutex_ = "NULL" /\ pc["ctrl"] = "delay"
    /\ pc["mon"] = "unlock" /\ ~locked_["mon"]
    /\ currentState_ = GREEN_CAR /\ trueUpdates = 0 /\ totalTransitions_ = 0
    /\ ElapsedTime(now, stateStartTime_) >= GREEN_CAR_DURATION

\* The state machine is as begin() left it: update() has made no transition.
UpdateUncalled ==
    currentState_ = GREEN_CAR /\ stateStartTime_ = 0 /\ cycleCount_ = 1
    /\ totalTransitions_ = 0 /\ hwQueue = <<>>

\* What a running task function reads or writes.
TaskEffects(t) ==
    <<smVars, hwVars, ctxVars, stateChanged, lastWakeTime, report, histVars>>

(* C31: a control or monitor task started with a null context pointer       *)
(* deletes itself in its first step and stays deleted: it is never at the   *)
(* lock or inside its loop, never holds the lock, and its only step changes *)
(* nothing of the shared context, the state machine or the port; a null     *)
(* control task leaves update() uncalled, a null monitor task reads and     *)
(* reports nothing.                                                         *)
C31_NullContext ==
    /\ [](\A t \in Tasks : pvParameters[t] = "NULL" =>
              /\ pc[t] \in {"entry", "deleted"}
              /\ ~locked_[t] /\ mutexHolder # t /\ lastAccess.by # t)
    /\ [](pvParameters["ctrl"] = "NULL" =>
              trueUpdates = 0 /\ ~upd.called /\ UpdateUncalled)
    /\ [](pvParameters["mon"] = "NULL" => report = NoReport /\ lastWakeTime = 0)
    /\ [][\A t \in Tasks : pvParameters[t] = "NULL" =>
              /\ (pc[t] = "entry" /\ pc'[t] # pc[t]) =>
                    pc'[t] = "deleted" /\ UNCHANGED TaskEffects(t)
              /\ pc[t] = "deleted" => pc'[t] = "deleted"]_vars

\* The control task, started with a null pointer, has deleted itself; the
\* monitor task runs and reports, and the vehicle green, never updated, has
\* outlasted its duration.
C31_Witness ==
    /\ pvParameters["ctrl"] = "NULL" /\ pvParameters["mon"] = "context"
    /\ pc["ctrl"] = "deleted" /\ pc["mon"] = "read" /\ locked_["mon"]
    /\ currentState_ = GREEN_CAR
    /\ ElapsedTime(now, stateStartTime_) >= GREEN_CAR_DURATION

\* The client calls update() again right after an update() that made a
\* transition late enough to cover the entered state's duration as well, with
\* no time passed since.
CatchUpCall ==
    /\ lastCall.op = "update" /\ lastCall.ret /\ upd.called /\ upd.behind
    /\ stateStartTime_ = now
    /\ lastCall'.op = "update" /\ lastCall' # lastCall

(* C32 as stated: after a freeze covering several state durations, each     *)
(* successive update() with no further time passing advances one state and  *)
(* returns true.                                                            *)
C32_CatchUp ==
    [][CatchUpCall =>
         lastCall'.ret /\ currentState_' = CyclicSuccessor(currentState_)]_vars

(* C32 amended: after a freeze covering several state durations the first   *)
(* update() advances one state and restarts the timer at the time of the    *)
(* call; each successive update() with no further time passing returns      *)
(* false and changes neither the machine nor the port, so the states that    *)
(* real time has passed are not caught up.                                  *)
C32_NoCatchUp ==
    [][/\ (lastCall'.op = "update" /\ lastCall' # lastCall /\ upd'.behind
              /\ lastCall'.ret) =>
             /\ currentState_' = CyclicSuccessor(currentState_)
             /\ stateStartTime_' = now
       /\ CatchUpCall =>
             /\ ~lastCall'.ret /\ ~upd'.result
             /\ UNCHANGED <<smVars, pins, pinModes, hwQueue, trueUpdates>>]_vars

\* After 25 s without polling, update() has left vehicle green for yellow and
\* a second update() at the same instant has returned false: the 3 s of
\* yellow that have also elapsed are not caught up.
C32_Witness ==
    /\ lastCall.op = "update" /\ ~lastCall.ret /\ lastCall.from = YELLOW_CAR
    /\ upd.called /\ upd.behind /\ ~upd.result /\ upd.elapsed = 0
    /\ currentState_ = YELLOW_CAR /\ stateStartTime_ = now
    /\ now = Ms(25000) /\ trueUpdates = 1 /\ hwQueue = <<>>

(* C33: once begin() has been called, whenever no port call is in progress  *)
(* and emergencyStop() has not been called since the last begin() or        *)
(* transition, the lit outputs are exactly those of the state table's entry *)
(* for the current state; after an emergencyStop() they are all OFF until   *)
(* then.  Every pattern the machine writes is the table entry of the        *)
(* current state; every other write the machine makes is an OFF.            *)
C33_OutputsFollowTable ==
    /\ (cycleCount_ >= 1 /\ hwQueue = <<>> /\ ~lastCall.stopped) =>
          OnPins = ConfigOn(getLedConfiguration(currentState_))
    /\ (cycleCount_ >= 1 /\ hwQueue = <<>> /\ lastCall.stopped) => OnPins = {}
    /\ \A i \in 1..Len(hwQueue) :
          IF hwQueue[i].call = "applyConfiguration"
          THEN hwQueue[i].config = getLedConfiguration(currentState_)
          ELSE hwQueue[i].level = OFF

\* update() has made the transition out of vehicle green and the yellow
\* pattern is on the port.
C33_Witness ==
    /\ cycleCount_ >= 1 /\ hwQueue = <<>> /\ ~lastCall.stopped
    /\ lastCall.op = "update" /\ lastCall.ret /\ lastCall.from = GREEN_CAR
    /\ currentState_ = YELLOW_CAR
    /\ OnPins = {LED_YELLOW_CAR, LED_RED_PEDESTRIAN}

\* The port after the pin operations q, made in order from levels p and modes m.
RECURSIVE RunPinOps(_, _, _)
RunPinOps(q, p, m) ==
    IF q = <<>> THEN <<p, m>>
    ELSE LET r == ExecPinOp(Head(q), p, m) IN RunPinOps(Tail(q), r[1], r[2])

AllOff == [p \in Pins |-> OFF]
AllOutput == [p \in Pins |-> "OUTPUT"]

\* This step makes the last pin operation of a port initialize() call.
InitializeEnds ==
    /\ hwQueue # <<>> /\ Head(hwQueue).call = "initialize"
    /\ hwQueue' = Tail(hwQueue)
    /\ (hwQueue' = <<>> \/ Head(hwQueue').call # "initialize")

(* C34: the port's initialize(), run from any pin state the program         *)
(* reaches, leaves the five channels configured as outputs and OFF, and     *)
(* run again leaves the same pin state; in the startup sequence each of its *)
(* calls ends in that state, and every pin write of another call (the state *)
(* machine's applyConfiguration included) is made with all five channels    *)
(* already configured.                                                      *)
C34_PortInitialize ==
    /\ [](LET once == RunPinOps(hwInitialize, pins, pinModes)
          IN  /\ once = <<AllOff, AllOutput>>
              /\ RunPinOps(hwInitialize, once[1], once[2]) = once)
    /\ [][InitializeEnds => pins' = AllOff /\ pinModes' = AllOutput]_vars
    /\ [][(hwQueue # <<>> /\ Head(hwQueue).call # "initialize"
             /\ hwQueue' = Tail(hwQueue)) => pinModes = AllOutput]_vars

\* The state machine's initialize() has run the port's initialize() a second
\* time during startup; begin()'s pattern is still to be written.
C34_Witness ==
    /\ pcMain = "initializeSharedContext" /\ isInitialized_
    /\ Len(hwQueue) = 10 /\ Head(hwQueue).call = "applyConfiguration"
    /\ pins = AllOff /\ pinModes = AllOutput

\* The table durations of the n states that follow each other from state s on.
RECURSIVE DurationsFrom(_, _)
DurationsFrom(s, n) ==
    IF n = 0 THEN 0
    ELSE getStateDuration(s) + DurationsFrom(CyclicSuccessor(s), n - 1)

(* C35: the durations of the five table entries, taken round the cycle from *)
(* the current state, sum to TOTAL_CYCLE_DURATION, which is 53000 ms; each  *)
(* entry's duration is the TimingConfig constant the sum is made of, and a  *)
(* machine in its second cycle has run for at least that long.              *)
C35_TotalCycle ==
    /\ DurationsFrom(currentState_, TOTAL_STATES) = TOTAL_CYCLE_DURATION
    /\ TOTAL_CYCLE_DURATION * MsPerUnit = 53000
    /\ getStateDuration(GREEN_CAR) = GREEN_CAR_DURATION
    /\ getStateDuration(YELLOW_CAR) = YELLOW_CAR_DURATION
    /\ getStateDuration(SAFETY_GAP_BEFORE) = SAFETY_GAP_DURATION
    /\ getStateDuration(GREEN_PEDESTRIAN) = GREEN_PEDESTRIAN_DURATION
    /\ getStateDuration(SAFETY_GAP_AFTER) = SAFETY_GAP_DURATION
    /\ cycleCount_ >= 2 => stateStartTime_ >= TOTAL_CYCLE_DURATION

\* The five states have been traversed and the second cycle has begun, at the
\* first poll after the 53 s of the cycle.
C35_Witness ==
    /\ cycleCount_ = 2 /\ currentState_ = GREEN_CAR /\ trueUpdates = TOTAL_STATES
    /\ stateStartTime_ = Ms(55000) /\ stateStartTime_ >= TOTAL_CYCLE_DURATION

(* C36: what the monitor task reads under the lock is mutually consistent:  *)
(* the index of the state read equals the transition count read modulo 5,   *)
(* and the cycle count read equals 1 plus the transition count div 5; the   *)
(* read is made holding the mutex, with the control task outside its block. *)
C36_ConsistentSnapshot ==
    report.printed =>
        /\ report.state = report.totalTransitions % TOTAL_STATES
        /\ report.cycleCount = 1 + (report.totalTransitions \div TOTAL_STATES)
        /\ report.state = toIndex(currentState_)
        /\ locked_["mon"] /\ mutexHolder = "mon"
        /\ ~InCriticalSection("ctrl")

\* The monitor reports the first state of the second cycle after five
\* transitions.
C36_Witness ==
    /\ report.printed /\ report.totalTransitions = TOTAL_STATES
    /\ report.cycleCount = 2 /\ report.state = toIndex(GREEN_CAR)
    /\ pc["ctrl"] = "lock"

\* suspendAllTasks() has returned and no resumeAllTasks() has started yet.
SuspendReturned ==
    /\ SuspendedWindow /\ pcEnv = "idle"
    /\ suspended["ctrl"] /\ suspended["mon"]

(* C37: when suspendAllTasks(), called from a third context, has returned,  *)
(* the shared lock is free: no suspended task holds it.                     *)
C37_LockFreeAfterSuspend ==
    SuspendReturned => mutexHolder = "none" /\ \A t \in Tasks : ~locked_[t]

(* C38: the active flag is false only while both tasks are suspended, and   *)
(* whenever the control or the monitor task tests the flag inside its       *)
(* locked block it finds it true.                                           *)
C38_FlagFalseOnlySuspended ==
    /\ [](pcMain = "scheduler" /\ ~systemActive_ =>
             suspended["ctrl"] /\ suspended["mon"])
    /\ [][\A t \in Tasks :
             (pc[t] = "check" /\ locked_[t] /\ pc'[t] # pc[t]) => systemActive_]_vars

(* C39: after a createTasks() that failed at the creation of the monitor    *)
(* task and deleted the control task, the task manager holds no handle of   *)
(* the deleted task, so suspendAllTasks() and resumeAllTasks() find nothing *)
(* to suspend or resume.                                                    *)
C39_NoDanglingHandle ==
    \A t \in Tasks :
        pc[t] = "deleted" =>
            /\ t = "ctrl" => semaphoreTaskHandle_ = "NULL"
            /\ t = "mon" => monitorTaskHandle_ = "NULL"

\* A reading of the wrapping counter as time on a clock that does not wrap:
\* readings after the wrap lie 2^32 ms above those before it.
Unwrapped(t) == IF t < WrapStart THEN t + MillisModulus ELSE t

\* Time the current state has lasted, on the clock that does not wrap.
TrueElapsed == Unwrapped(now) - Unwrapped(stateStartTime_)

(* C40: with the state begun before or after the wrap of the millisecond    *)
(* counter, the elapsed time update() and getTimeRemainingInState() compute *)
(* equals the time elapsed on an unbounded clock, so update() called now    *)
(* returns true exactly when the state has lasted its duration, a state     *)
(* left is left for its successor at the time of the call, and the time     *)
(* remaining is the duration less the true elapsed time, or 0.              *)
C40_WrapSafe ==
    (isInitialized_ /\ cycleCount_ >= 1) =>
        LET duration == getStateDuration(currentState_)
            u == update(now)
        IN  /\ TrueElapsed >= 0
            /\ ElapsedTime(now, stateStartTime_) = TrueElapsed
            /\ u.result = (TrueElapsed >= duration)
            /\ u.result => u.state = CyclicSuccessor(currentState_) /\ u.start = now
            /\ ~u.result => u.state = currentState_ /\ u.start = stateStartTime_
            /\ getTimeRemainingInState(now) =
                  IF TrueElapsed >= duration THEN 0 ELSE duration - TrueElapsed

\* begin() was called 10 s before the wrap; update() at 10 s after it has
\* left the vehicle green exactly at its 20 s.
C40_Witness ==
    /\ lastCall.op = "update" /\ lastCall.ret /\ lastCall.from = GREEN_CAR
    /\ upd.elapsed = GREEN_CAR_DURATION /\ trueUpdates = 1
    /\ currentState_ = YELLOW_CAR /\ now = Ms(10000) /\ stateStartTime_ = now

====
